---- MODULE Spec2Model ----
(***************************************************************************)
(* Verification model of the muffin-sdk arithmetic core: TickMath,         *)
(* PoolMath, Tier and Position.                                            *)
(*                                                                         *)
(* The SDK computes on arbitrary-precision integers (JSBI).  TLC's         *)
(* integers are 32 bits wide, so a JSBI value is modelled as a record      *)
(* [neg, mag]: a sign and a magnitude, the magnitude a little-endian       *)
(* sequence of 12-bit limbs with no leading zero limb (zero is <<>>).      *)
(* 12-bit limbs are three hexadecimal digits, so the hexadecimal           *)
(* constants of the source are written as they stand, three digits a       *)
(* group.                                                                  *)
(***************************************************************************)
EXTENDS Integers, Sequences, FiniteSets, Bags, TLC

(***************************************************************************)
(* Magnitudes: natural numbers as limb sequences.  TLC evaluates nested    *)
(* operator applications on a small stack, so the loops over limbs are     *)
(* written without deep recursion: a loop is either a function over the    *)
(* limb indices or a recursion that halves its range.                      *)
(***************************************************************************)
Base == 2^12

Limb(a, i) == IF i >= 1 /\ i <= Len(a) THEN a[i] ELSE 0

\* drop the leading (most significant) zero limbs
Trim(s) ==
  LET nz == {i \in 1..Len(s) : s[i] # 0}
  IN  IF nz = {} THEN <<>>
      ELSE SubSeq(s, 1, CHOOSE i \in nz : \A j \in nz : j <= i)

\* limbs in 0 .. 2*Base-2: limb i receives a carry iff some lower limb
\* overflows and every limb between the two is Base-1
AddCarry(x) ==
  LET CarryIn(i) ==
        \E j \in 1..(i - 1) : x[j] >= Base /\ \A k \in (j + 1)..(i - 1) : x[k] = Base - 1
  IN  Trim([i \in 1..(Len(x) + 1) |-> (Limb(x, i) + (IF CarryIn(i) THEN 1 ELSE 0)) % Base])

\* limbs of any natural size: each pass moves every limb's overflow one limb
\* up; three passes bring a product's columns below 2*Base-1
RECURSIVE Carry(_)
Carry(x) ==
  IF \A i \in 1..Len(x) : x[i] < 2 * Base - 1 THEN AddCarry(x)
  ELSE Carry([i \in 1..(Len(x) + 1) |-> (Limb(x, i) % Base) + (Limb(x, i - 1) \div Base)])

MagFromInt(n) == Trim(<<n % Base, (n \div Base) % Base, n \div (Base * Base)>>)

MagToInt(a) == Limb(a, 1) + Base * Limb(a, 2) + Base * Base * Limb(a, 3)

RECURSIVE MagCmpAt(_, _, _)
MagCmpAt(a, b, i) ==
  IF a[i] < b[i] THEN -1
  ELSE IF a[i] > b[i] THEN 1
  ELSE MagCmpAt(a, b, i - 1)

MagCmp(a, b) ==
  IF Len(a) < Len(b) THEN -1
  ELSE IF Len(a) > Len(b) THEN 1
  ELSE IF a = b THEN 0
  ELSE MagCmpAt(a, b, Len(a))

MagAdd(a, b) ==
  AddCarry([i \in 1..(IF Len(a) >= Len(b) THEN Len(a) ELSE Len(b)) |-> Limb(a, i) + Limb(b, i)])

\* a - b for a >= b.  The limb differences are in -(Base-1) .. Base-1: limb
\* i lends iff some lower limb is negative and every limb between the two is 0
MagSub(a, b) ==
  LET x == [i \in 1..Len(a) |-> a[i] - Limb(b, i)]
      BorrowIn(i) ==
        \E j \in 1..(i - 1) : x[j] < 0 /\ \A k \in (j + 1)..(i - 1) : x[k] = 0
  IN  Trim([i \in 1..Len(x) |-> (x[i] - (IF BorrowIn(i) THEN 1 ELSE 0)) % Base])

\* a * k for a small factor 0 <= k < 2^18
MagMulSmall(a, k) == Carry([i \in 1..Len(a) |-> a[i] * k])

\* the schoolbook product: column k is the sum of a[i] * b[k + 1 - i].  The
\* sum of a non-empty sequence of naturals is taken as a bag's cardinality
\* (the sum of its counts, a count being at least 1).
MagMul(a, b) ==
  LET Sum(f) == BagCardinality([i \in 1..Len(f) |-> f[i] + 1]) - Len(f)
      MagMulColumn(k) ==
        LET lo == IF k > Len(b) THEN k + 1 - Len(b) ELSE 1
            hi == IF k > Len(a) THEN Len(a) ELSE k
        IN  Sum([i \in 1..(hi - lo + 1) |-> a[lo + i - 1] * b[k + 2 - lo - i]])
  IN  IF a = <<>> \/ b = <<>> THEN <<>>
      ELSE Carry([k \in 1..(Len(a) + Len(b) - 1) |-> MagMulColumn(k)])

MagShl(a, n) ==
  LET x == MagMulSmall(a, 2^(n % 12))
  IN  IF x = <<>> THEN x ELSE [i \in 1..(n \div 12) |-> 0] \o x

MagShr(a, n) ==
  LET drop == n \div 12
      bits == n % 12
      x    == IF drop >= Len(a) THEN <<>> ELSE SubSeq(a, drop + 1, Len(a))
  IN  Trim([i \in 1..Len(x) |->
             (x[i] \div 2^bits) + (Limb(x, i + 1) % 2^bits) * 2^(12 - bits)])

MagBitLen(a) ==
  IF a = <<>> THEN 0 ELSE 12 * (Len(a) - 1) + Cardinality({k \in 0..11 : 2^k <= a[Len(a)]})

\* One quotient limb of r / b, for r < b * Base and b with its top limb at
\* least Base / 2: the estimate from the leading limbs is at most two too big.
RECURSIVE MagDivDigitDown(_, _, _)
MagDivDigitDown(r, b, q) ==
  IF MagCmp(MagMulSmall(b, q), r) = 1 THEN MagDivDigitDown(r, b, q - 1) ELSE q

\* long division over the limbs hi down to lo of a, entered with the
\* remainder r of the limbs above hi: the remainder left and the quotient
\* limbs lo..hi.  The upper half is divided before the lower half is entered.
RECURSIVE MagDivRange(_, _, _, _, _)
MagDivRange(a, b, hi, lo, r) ==
  IF hi = lo
  THEN LET r1   == Trim(<<a[hi]>> \o r)
           n    == Len(b)
           est  == (Limb(r1, n + 1) * Base + Limb(r1, n)) \div b[n]
           d    == IF Len(r1) < n THEN 0
                   ELSE MagDivDigitDown(r1, b, IF est > Base - 1 THEN Base - 1 ELSE est)
       IN  [r |-> IF d = 0 THEN r1 ELSE MagSub(r1, MagMulSmall(b, d)), q |-> <<d>>]
  ELSE LET mid  == (hi + lo) \div 2
           up   == MagDivRange(a, b, hi, mid + 1, r)
       IN  IF up.q = <<>> THEN up
           ELSE LET down == MagDivRange(a, b, mid, lo, up.r)
                IN  [r |-> down.r, q |-> down.q \o up.q]

\* floor(a / b) for b > 0: both are scaled so that b's top limb is at least
\* Base / 2, which leaves the quotient unchanged.
MagDiv(a, b) ==
  LET f  == Base \div (b[Len(b)] + 1)
      af == MagMulSmall(a, f)
  IN  IF MagCmp(a, b) = -1 THEN <<>>
      ELSE Trim(MagDivRange(af, MagMulSmall(b, f), Len(af), 1, <<>>).q)

(***************************************************************************)
(* JSBI values: sign and magnitude.                                        *)
(***************************************************************************)
Mk(neg, mag) == [neg |-> neg /\ mag # <<>>, mag |-> mag]

BigInt(n) == Mk(n < 0, MagFromInt(IF n < 0 THEN -n ELSE n))

\* a hexadecimal literal, most significant group first, three digits a group
Hex(groups) == Mk(FALSE, Trim([i \in 1..Len(groups) |-> groups[Len(groups) + 1 - i]]))

\* a decimal literal, most significant group first, three digits a group
RECURSIVE Pow1000(_)
Pow1000(k) ==
  IF k = 0 THEN <<1>>
  ELSE IF k = 1 THEN <<1000>>
  ELSE MagMul(Pow1000(k \div 2), Pow1000(k - k \div 2))

RECURSIVE DecRange(_, _, _)
DecRange(groups, lo, hi) ==
  IF lo = hi THEN MagFromInt(groups[lo])
  ELSE LET mid == (lo + hi) \div 2
       IN  MagAdd(MagMul(DecRange(groups, lo, mid), Pow1000(hi - mid)),
                  DecRange(groups, mid + 1, hi))

Dec(groups) == Mk(FALSE, DecRange(groups, 1, Len(groups)))

ZERO == BigInt(0)
ONE  == BigInt(1)
TWO  == BigInt(2)

unaryMinus(x) == Mk(~x.neg, x.mag)

Cmp(a, b) ==
  IF a.neg # b.neg THEN (IF a.neg THEN -1 ELSE 1)
  ELSE IF a.neg THEN MagCmp(b.mag, a.mag) ELSE MagCmp(a.mag, b.mag)

lessThan(a, b)           == Cmp(a, b) = -1
lessThanOrEqual(a, b)    == Cmp(a, b) # 1
greaterThan(a, b)        == Cmp(a, b) = 1
greaterThanOrEqual(a, b) == Cmp(a, b) # -1

add(a, b) ==
  IF a.neg = b.neg THEN Mk(a.neg, MagAdd(a.mag, b.mag))
  ELSE IF MagCmp(a.mag, b.mag) = -1 THEN Mk(b.neg, MagSub(b.mag, a.mag))
  ELSE Mk(a.neg, MagSub(a.mag, b.mag))

subtract(a, b) == add(a, unaryMinus(b))

multiply(a, b) == Mk(a.neg # b.neg, MagMul(a.mag, b.mag))

\* JSBI.divide truncates toward zero; the divisor is never zero here
divide(a, b) == Mk(a.neg # b.neg, MagDiv(a.mag, b.mag))

\* JSBI.remainder has the sign of the dividend
remainder(a, b) == subtract(a, multiply(divide(a, b), b))

leftShift(a, n) == Mk(a.neg, MagShl(a.mag, n))

\* arithmetic shift: floor(a / 2^n), also for negative a
signedRightShift(a, n) ==
  IF a.neg THEN Mk(TRUE, MagAdd(MagShr(MagSub(a.mag, <<1>>), n), <<1>>))
  ELSE Mk(FALSE, MagShr(a.mag, n))

testBit(a, k) == Limb(signedRightShift(a, k).mag, 1) % 2 = 1

\* JSBI.bitwiseOr on two's complement, for b a single bit (a power of two),
\* the only use the SDK makes of it
bitwiseOr(a, b) == IF testBit(a, MagBitLen(b.mag) - 1) THEN a ELSE add(a, b)

toNumber(a) == IF a.neg THEN -MagToInt(a.mag) ELSE MagToInt(a.mag)

(***************************************************************************)
(* Contract constants (constants.ts).                                      *)
(***************************************************************************)
MIN_TICK == -776363
MAX_TICK == 776363
MIN_SQRT_PRICE == BigInt(65539)
MAX_SQRT_PRICE == Dec(<<340, 271, 175, 397, 327, 323, 250, 730, 767, 849, 398, 346, 765>>)

Q56  == leftShift(ONE, 56)
Q72  == leftShift(ONE, 72)
Q128 == leftShift(ONE, 128)
Q144 == leftShift(ONE, 144)
MaxUint256 == subtract(leftShift(ONE, 256), ONE)

\* a failed invariant(...), carrying its message
Failure(msg) == [err |-> msg]
Failed(r) == "err" \in DOMAIN r

(***************************************************************************)
(* TickMath (utils/tickMath.ts).                                           *)
(***************************************************************************)
mulShift(val, mulBy) == signedRightShift(multiply(val, mulBy), 128)

\* the per-bit factors of the ladder, for bits 0x1, 0x2, ..., 0x80000 of |tick|
TickRatios ==
  <<
     Hex(<<\h0ff, \hfcb, \h933, \hbd6, \hfad, \h37a, \ha2d, \h162, \hd1a, \h594, \h001>>),
     Hex(<<\h0ff, \hf97, \h272, \h373, \hd41, \h325, \h9a4, \h699, \h058, \h0e2, \h13a>>),
     Hex(<<\h0ff, \hf2e, \h50f, \h5f6, \h569, \h32e, \hf12, \h357, \hcf3, \hc7f, \hdcc>>),
     Hex(<<\h0ff, \he5c, \haca, \h7e1, \h0e4, \he61, \hc36, \h24e, \haa0, \h941, \hcd0>>),
     Hex(<<\h0ff, \hcb9, \h843, \hd60, \hf61, \h59c, \h9db, \h588, \h35c, \h926, \h644>>),
     Hex(<<\h0ff, \h973, \hb41, \hfa9, \h8c0, \h814, \h72e, \h689, \h6df, \hb25, \h4c0>>),
     Hex(<<\h0ff, \h2ea, \h164, \h66c, \h96a, \h384, \h3ec, \h78b, \h326, \hb52, \h861>>),
     Hex(<<\h0fe, \h5de, \he04, \h6a9, \h9a2, \ha81, \h1c4, \h61f, \h196, \h9c3, \h053>>),
     Hex(<<\h0fc, \hbe8, \h6c7, \h900, \ha88, \haed, \hcff, \hc83, \hb47, \h9aa, \h3a4>>),
     Hex(<<\h0f9, \h87a, \h725, \h3ac, \h413, \h176, \hf2b, \h074, \hcf7, \h815, \he54>>),
     Hex(<<\h0f3, \h392, \hb08, \h22b, \h700, \h059, \h40c, \h7a3, \h98e, \h4b7, \h0f3>>),
     Hex(<<\h0e7, \h159, \h475, \ha2c, \h29b, \h744, \h3b2, \h9c7, \hfa6, \he88, \h9d9>>),
     Hex(<<\h0d0, \h97f, \h3bd, \hfd2, \h022, \hb88, \h45a, \hd8f, \h792, \haa5, \h825>>),
     Hex(<<\h0a9, \hf74, \h646, \h2d8, \h70f, \hdf8, \ha65, \hdc1, \hf90, \he06, \h1e5>>),
     Hex(<<\h070, \hd86, \h9a1, \h56d, \h2a1, \hb89, \h0bb, \h3df, \h62b, \haf3, \h2f7>>),
     Hex(<<\h031, \hbe1, \h35f, \h97d, \h08f, \hd98, \h123, \h150, \h554, \h2fc, \hfa6>>),
     Hex(<<\h009, \haa5, \h08b, \h5b7, \ha84, \he1c, \h677, \hde5, \h4f3, \he99, \hbc9>>),
     Hex(<<\h5d6, \haf8, \hded, \hb81, \h196, \h699, \hc32, \h922, \h5ee, \h604>>),
     Hex(<<\h002, \h216, \he58, \h4f5, \hfa1, \hea9, \h260, \h41b, \hedf, \he98>>),
     Hex(<<\h048, \ha17, \h039, \h1f7, \hdc4, \h244, \h4e8, \hfa2>>)
  >>

\* the ratio after the tests of bits lo..hi of x in turn, entered with
\* `ratio`; the lower half of the tests is done before the upper half
RECURSIVE ratioLadder(_, _, _, _)
ratioLadder(x, ratio, lo, hi) ==
  IF lo = hi
  THEN IF (x \div 2^lo) % 2 # 0 THEN mulShift(ratio, TickRatios[lo + 1]) ELSE ratio
  ELSE LET mid  == (lo + hi) \div 2
           half == ratioLadder(x, ratio, lo, mid)
       IN  IF half = ZERO THEN half ELSE ratioLadder(x, half, mid + 1, hi)

\* the rescaling with the remainder dropped
roundDownShift56(ratio) == divide(ratio, Q56)

\* the rescaling to 72 fractional bits, rounding up
roundUpShift56(ratio) ==
  IF greaterThan(remainder(ratio, Q56), ZERO)
  THEN add(divide(ratio, Q56), ONE)
  ELSE divide(ratio, Q56)

tickToSqrtPriceX72(tick) ==
  IF ~(tick >= MIN_TICK /\ tick <= MAX_TICK) THEN Failure("TICK")
  ELSE LET x == IF tick < 0 THEN -tick ELSE tick
           ratio == ratioLadder(x, Q128, 0, 19)
       IN  roundUpShift56(IF tick > 0 THEN divide(MaxUint256, ratio) ELSE ratio)

\* index of the highest set bit
mostSignificantBit(x) == MagBitLen(x.mag) - 1

\* a round that halves z but never records the bit in log2
log2RoundNoBit(st, i) ==
  LET z == signedRightShift(multiply(st.z, st.z), 127)
  IN  [z    |-> IF greaterThanOrEqual(z, Q128) THEN signedRightShift(z, 1) ELSE z,
       log2 |-> st.log2]

\* round i of the squaring loop on [z, log2]
log2Round(st, i) ==
  LET z == signedRightShift(multiply(st.z, st.z), 127)
  IN  IF greaterThanOrEqual(z, Q128)
      THEN [z    |-> signedRightShift(z, 1),
            log2 |-> bitwiseOr(st.log2, leftShift(ONE, 63 - i))]
      ELSE [z |-> z, log2 |-> st.log2]

\* rounds lo..hi of the loop in turn; the lower half is done before the
\* upper half is entered
RECURSIVE log2Loop(_, _, _)
log2Loop(st, lo, hi) ==
  IF lo = hi THEN log2Round(st, lo)
  ELSE LET mid  == (lo + hi) \div 2
           half == log2Loop(st, lo, mid)
       IN  IF half.z = ZERO THEN half ELSE log2Loop(half, mid + 1, hi)

\* an error bound of a whole tick
tickLowOffsetOfOneTick(logBaseSqrt10001) == leftShift(ONE, 128)

tickLowOffset(logBaseSqrt10001) ==
  IF lessThan(logBaseSqrt10001, unaryMinus(Dec(<<230, 154, 402, 537, 746, 701, 963, 478, 439, 606, 373, 042, 805, 014, 528>>)))
  THEN Dec(<<98, 577, 143, 636, 729, 737, 466, 164, 032, 634, 120, 830, 977>>)
  ELSE IF lessThan(logBaseSqrt10001, unaryMinus(Dec(<<162, 097, 929, 153, 559, 009, 270, 803, 518, 120, 019, 400, 513, 814, 528>>)))
  THEN Dec(<<527, 810, 000, 259, 722, 480, 933, 883, 300, 202, 676, 225>>)
  ELSE ZERO

\* a JS number that a function returns, boxed so that a failed invariant
\* can stand in its place
Number(n) == [num |-> n]

sqrtPriceX72ToTick(sqrtPriceX72) ==
  IF ~greaterThanOrEqual(sqrtPriceX72, MIN_SQRT_PRICE) THEN Failure("SQRT_RATIO")
  ELSE IF ~lessThanOrEqual(sqrtPriceX72, MAX_SQRT_PRICE) THEN Failure("SQRT_RATIO")
  ELSE LET msb  == mostSignificantBit(sqrtPriceX72)
           log2 == log2Loop([z    |-> leftShift(sqrtPriceX72, 127 - msb),
                             log2 |-> leftShift(subtract(BigInt(msb), BigInt(72)), 64)],
                            0, 17).log2
           logBaseSqrt10001 == multiply(log2, Dec(<<255, 738, 958, 999, 603, 826, 347, 141>>))
           tickHigh == toNumber(signedRightShift(
                         add(logBaseSqrt10001, Dec(<<17, 996, 007, 701, 288, 367, 970, 265, 332, 090, 599, 899, 137>>)), 128))
           tickLow  == toNumber(signedRightShift(
                         subtract(logBaseSqrt10001, tickLowOffset(logBaseSqrt10001)), 128))
       IN  IF tickLow = tickHigh \/ greaterThanOrEqual(sqrtPriceX72, tickToSqrtPriceX72(tickHigh))
           THEN Number(tickHigh)
           ELSE Number(tickLow)

(***************************************************************************)
(* ceilDiv (utils/ceilDiv.ts) and PoolMath (utils/poolMath.ts).            *)
(***************************************************************************)
\* a division that drops the remainder
truncDiv(x, y) == divide(x, y)

ceilDiv(x, y) ==
  IF ~(greaterThanOrEqual(x, ZERO) /\ greaterThanOrEqual(y, ZERO)) THEN Failure("CEIL_DIV_NEGATIVE")
  ELSE LET z == divide(x, y)
       IN  IF remainder(x, y) # ZERO THEN add(z, ONE) ELSE z

fromD8(x) == multiply(x, BigInt(256))

\* the liquidity handed on without the scaling down
toD8Unscaled(x) == x

toD8(x) == divide(x, BigInt(256))

\* the sign left as it is
sameSign(x) == x

negate(x) == multiply(x, BigInt(-1))

\* the delta taken with its sign
absSigned(x) == x

abs(x) == IF lessThan(x, ZERO) THEN negate(x) ELSE x

calcAmount0Delta(sqrtP0, sqrtP1, liquidity) ==
  LET priceUp     == greaterThan(sqrtP1, sqrtP0)
      p0          == IF priceUp THEN sqrtP1 ELSE sqrtP0
      p1          == IF priceUp THEN sqrtP0 ELSE sqrtP1
      numerator   == multiply(multiply(liquidity, subtract(p0, p1)), Q72)
      denominator == multiply(p0, p1)
  IN  IF priceUp THEN negate(divide(numerator, denominator))
      ELSE ceilDiv(numerator, denominator)

calcAmount1Delta(sqrtP0, sqrtP1, liquidity) ==
  LET priceDown == lessThan(sqrtP1, sqrtP0)
      p0        == IF priceDown THEN sqrtP1 ELSE sqrtP0
      p1        == IF priceDown THEN sqrtP0 ELSE sqrtP1
      numerator == multiply(liquidity, subtract(p1, p0))
  IN  IF priceDown THEN negate(divide(numerator, Q72))
      ELSE ceilDiv(numerator, Q72)

\* the amounts taken at the current price as it stands, not brought into
\* the range
amountsForLiquidityDeltaD8Unclamped(sqrtPCurrent, sqrtPLower, sqrtPUpper, liquidityDeltaD8) ==
  IF ~lessThan(sqrtPLower, sqrtPUpper) THEN Failure("SQRT_P")
  ELSE LET liquidity == fromD8(abs(liquidityDeltaD8))
       IN  IF greaterThanOrEqual(liquidityDeltaD8, ZERO)
           THEN [amount0 |-> calcAmount0Delta(sqrtPUpper, sqrtPCurrent, liquidity),
                 amount1 |-> calcAmount1Delta(sqrtPLower, sqrtPCurrent, liquidity)]
           ELSE [amount0 |-> negate(calcAmount0Delta(sqrtPCurrent, sqrtPUpper, liquidity)),
                 amount1 |-> negate(calcAmount1Delta(sqrtPCurrent, sqrtPLower, liquidity))]

amountsForLiquidityDeltaD8(sqrtPCurrent, sqrtPLower, sqrtPUpper, liquidityDeltaD8) ==
  IF ~lessThan(sqrtPLower, sqrtPUpper) THEN Failure("SQRT_P")
  ELSE LET sqrtP == IF lessThan(sqrtPCurrent, sqrtPLower) THEN sqrtPLower
                    ELSE IF greaterThan(sqrtPCurrent, sqrtPUpper) THEN sqrtPUpper
                    ELSE sqrtPCurrent
           liquidity == fromD8(abs(liquidityDeltaD8))
       IN  IF greaterThanOrEqual(liquidityDeltaD8, ZERO)
           THEN [amount0 |-> calcAmount0Delta(sqrtPUpper, sqrtP, liquidity),
                 amount1 |-> calcAmount1Delta(sqrtPLower, sqrtP, liquidity)]
           ELSE [amount0 |-> negate(calcAmount0Delta(sqrtP, sqrtPUpper, liquidity)),
                 amount1 |-> negate(calcAmount1Delta(sqrtP, sqrtPLower, liquidity))]

minInputAmountsForLiquidityD8(sqrtPCurrent, sqrtPLower, sqrtPUpper, liquidityIncreaseD8) ==
  IF ~greaterThanOrEqual(liquidityIncreaseD8, ZERO) THEN Failure("NEGATIVE_LIQUIDTY_INCREASE")
  ELSE amountsForLiquidityDeltaD8(sqrtPCurrent, sqrtPLower, sqrtPUpper, liquidityIncreaseD8)

minOutputAmountsForLiquidityD8(sqrtPCurrent, sqrtPLower, sqrtPUpper, liquidityDecreaseD8) ==
  IF ~greaterThanOrEqual(liquidityDecreaseD8, ZERO) THEN Failure("NEGATIVE_LIQUIDTY_INCREASE")
  ELSE amountsForLiquidityDeltaD8(sqrtPCurrent, sqrtPLower, sqrtPUpper, negate(liquidityDecreaseD8))

\* inside the range, the larger of the two liquidities
maxOutputLiquidityForAmountsLarger(sqrtPCurrent, sqrtPLower, sqrtPUpper, amount0, amount1) ==
  IF ~lessThan(sqrtPLower, sqrtPUpper) THEN Failure("SQRT_P")
  ELSE IF lessThanOrEqual(sqrtPCurrent, sqrtPLower)
  THEN divide(multiply(amount0, multiply(sqrtPLower, sqrtPUpper)),
              multiply(subtract(sqrtPUpper, sqrtPLower), Q72))
  ELSE IF greaterThanOrEqual(sqrtPCurrent, sqrtPUpper)
  THEN divide(multiply(amount1, Q72), subtract(sqrtPUpper, sqrtPLower))
  ELSE LET liquidity0 == divide(multiply(amount0, multiply(sqrtPCurrent, sqrtPUpper)),
                                multiply(subtract(sqrtPUpper, sqrtPCurrent), Q72))
           liquidity1 == divide(multiply(amount1, Q72), subtract(sqrtPCurrent, sqrtPLower))
       IN  IF lessThan(liquidity0, liquidity1) THEN liquidity1 ELSE liquidity0

maxOutputLiquidityForAmounts(sqrtPCurrent, sqrtPLower, sqrtPUpper, amount0, amount1) ==
  IF ~lessThan(sqrtPLower, sqrtPUpper) THEN Failure("SQRT_P")
  ELSE IF lessThanOrEqual(sqrtPCurrent, sqrtPLower)
  THEN divide(multiply(amount0, multiply(sqrtPLower, sqrtPUpper)),
              multiply(subtract(sqrtPUpper, sqrtPLower), Q72))
  ELSE IF greaterThanOrEqual(sqrtPCurrent, sqrtPUpper)
  THEN divide(multiply(amount1, Q72), subtract(sqrtPUpper, sqrtPLower))
  ELSE LET liquidity0 == divide(multiply(amount0, multiply(sqrtPCurrent, sqrtPUpper)),
                                multiply(subtract(sqrtPUpper, sqrtPCurrent), Q72))
           liquidity1 == divide(multiply(amount1, Q72), subtract(sqrtPCurrent, sqrtPLower))
       IN  IF lessThan(liquidity0, liquidity1) THEN liquidity0 ELSE liquidity1

\* the liquidity scaled down and rounded up
maxOutputLiquidityD8ForAmountsRoundedUp(sqrtPCurrent, sqrtPLower, sqrtPUpper, amount0, amount1) ==
  LET liquidity == maxOutputLiquidityForAmounts(sqrtPCurrent, sqrtPLower, sqrtPUpper, amount0, amount1)
  IN  IF Failed(liquidity) THEN liquidity ELSE ceilDiv(liquidity, BigInt(256))

maxOutputLiquidityD8ForAmounts(sqrtPCurrent, sqrtPLower, sqrtPUpper, amount0, amount1) ==
  LET liquidity == maxOutputLiquidityForAmounts(sqrtPCurrent, sqrtPLower, sqrtPUpper, amount0, amount1)
  IN  IF Failed(liquidity) THEN liquidity ELSE toD8(liquidity)

(***************************************************************************)
(* Fraction, Percent and sqrt of @uniswap/sdk-core, as the SDK uses them.  *)
(***************************************************************************)
Fraction(numerator, denominator) == [numerator |-> numerator, denominator |-> denominator]

fractionAdd(a, b) ==
  IF a.denominator = b.denominator THEN Fraction(add(a.numerator, b.numerator), a.denominator)
  ELSE Fraction(add(multiply(a.numerator, b.denominator), multiply(b.numerator, a.denominator)),
                multiply(a.denominator, b.denominator))

fractionSubtract(a, b) ==
  IF a.denominator = b.denominator THEN Fraction(subtract(a.numerator, b.numerator), a.denominator)
  ELSE Fraction(subtract(multiply(a.numerator, b.denominator), multiply(b.numerator, a.denominator)),
                multiply(a.denominator, b.denominator))

\* the product with the second factor upside down
fractionMultiplyInverted(a, b) ==
  Fraction(multiply(a.numerator, b.denominator), multiply(a.denominator, b.numerator))

fractionMultiply(a, b) ==
  Fraction(multiply(a.numerator, b.numerator), multiply(a.denominator, b.denominator))

\* Newton's iteration downward from z >= sqrt(value): the first z that the
\* next iterate does not undercut is floor(sqrt(value))
RECURSIVE sqrtLoop(_, _)
sqrtLoop(value, z) ==
  LET x == divide(add(divide(value, z), z), TWO)
  IN  IF lessThan(x, z) THEN sqrtLoop(value, x) ELSE z

sqrt(value) ==
  IF lessThan(value, ZERO) THEN Failure("NEGATIVE")
  ELSE IF value = ZERO THEN ZERO
  ELSE sqrtLoop(value, leftShift(ONE, (MagBitLen(value.mag) + 1) \div 2))

(***************************************************************************)
(* encodeSqrtPriceX72 (utils/misc.ts) and Tier (entities/tier.ts).         *)
(***************************************************************************)
encodeSqrtPriceX72(amount1, amount0) ==
  LET numerator   == leftShift(amount1, 144)
      denominator == amount0
      ratioX144   == divide(numerator, denominator)
  IN  sqrt(ratioX144)

\* a field not set: null or undefined
Null == [null |-> TRUE]

\* a token of the tests: its address is the digit sortOrder repeated, so
\* addresses compare as the sort orders do
Token(chainId, sortOrder) == [isNative |-> FALSE, chainId |-> chainId, address |-> sortOrder]

\* new Price(baseCurrency, quoteCurrency, denominator, numerator) of
\* @uniswap/sdk-core: a Fraction that knows its two currencies
Price(baseCurrency, quoteCurrency, denominator, numerator) ==
  [baseCurrency |-> baseCurrency, quoteCurrency |-> quoteCurrency,
   numerator |-> numerator, denominator |-> denominator]

\* new Tier(tokenA, tokenB, liquidity, sqrtPriceX72, sqrtGamma, nextTickBelow,
\* nextTickAbove).  The numbers handed over are integers, so that NEXT_TICKS
\* and the isInteger part of FEE hold; tokenA.sortsBefore(tokenB) refuses
\* tokens of two chains and one token given twice.
NewTier(args) ==
  IF ~(args.nextTickBelow < args.nextTickAbove) THEN Failure("NEXT_TICKS_ORDER")
  ELSE IF ~(args.sqrtGamma > 0 /\ args.sqrtGamma <= 100000) THEN Failure("FEE")
  ELSE IF ~(args.tokenA.chainId = args.tokenB.chainId) THEN Failure("CHAIN_IDS")
  ELSE IF ~(args.tokenA.address # args.tokenB.address) THEN Failure("ADDRESSES")
  ELSE [token0        |-> IF args.tokenA.address < args.tokenB.address THEN args.tokenA ELSE args.tokenB,
        token1        |-> IF args.tokenA.address < args.tokenB.address THEN args.tokenB ELSE args.tokenA,
        liquidity     |-> args.liquidity,
        sqrtPriceX72  |-> args.sqrtPriceX72,
        sqrtGamma     |-> args.sqrtGamma,
        nextTickBelow |-> args.nextTickBelow,
        nextTickAbove |-> args.nextTickAbove,
        _token0Price  |-> Null,
        _token1Price  |-> Null,
        _tickCurrent  |-> Null]

\* the tier of the Position tests, at the given price
Tier(sqrtPrice) ==
  NewTier([tokenA |-> Token(1, 0), tokenB |-> Token(1, 1), liquidity |-> ONE, sqrtPriceX72 |-> sqrtPrice,
           sqrtGamma |-> 100000, nextTickBelow |-> MIN_TICK, nextTickAbove |-> MAX_TICK])

\* what the getter token0Price computes when its cache is empty
token0Price(tier) ==
  Price(tier.token0, tier.token1, Q144, multiply(tier.sqrtPriceX72, tier.sqrtPriceX72))

\* what the getter token1Price computes when its cache is empty
token1Price(tier) ==
  Price(tier.token1, tier.token0, multiply(tier.sqrtPriceX72, tier.sqrtPriceX72), Q144)

\* the decrement left out
tickCurrentOfPrice(tier) == sqrtPriceX72ToTick(tier.sqrtPriceX72)

\* what the getter tickCurrent computes when its cache is empty
tickCurrent(tier) ==
  LET tick0 == sqrtPriceX72ToTick(tier.sqrtPriceX72)
  IN  IF Failed(tick0) THEN tick0
      ELSE IF tick0.num = tier.nextTickAbove THEN Number(tick0.num - 1)
      ELSE tick0

sqrtPriceAfterSlippage(tier, slippage) ==
  LET priceLower == fractionMultiply(token0Price(tier), fractionSubtract(Fraction(ONE, ONE), slippage))
      priceUpper == fractionMultiply(token0Price(tier), fractionAdd(slippage, Fraction(ONE, ONE)))
      sqrtPLower == encodeSqrtPriceX72(priceLower.numerator, priceLower.denominator)
      sqrtPUpper == encodeSqrtPriceX72(priceUpper.numerator, priceUpper.denominator)
  IN  IF Failed(sqrtPLower) THEN sqrtPLower
      ELSE IF Failed(sqrtPUpper) THEN sqrtPUpper
      ELSE [sqrtPriceSlippageLower |->
              IF lessThan(sqrtPLower, MIN_SQRT_PRICE) THEN MIN_SQRT_PRICE ELSE sqrtPLower,
            sqrtPriceSlippageUpper |->
              IF greaterThan(sqrtPUpper, MAX_SQRT_PRICE) THEN MAX_SQRT_PRICE ELSE sqrtPUpper]

(***************************************************************************)
(* Position (entities/position.ts).                                        *)
(***************************************************************************)
NotLimitOrder == 0
ZeroForOne == 1
OneForZero == 2
LimitOrderType == {NotLimitOrder, ZeroForOne, OneForZero}


\* new Position(args).  An optional argument is <<>> when it is left out and
\* <<v>> when it is given.
NewPosition(args) ==
  IF ~(args.tickLower < args.tickUpper) THEN Failure("TICK_ORDER")
  ELSE IF ~(args.tickLower >= MIN_TICK) THEN Failure("TICK_LOWER_LIMIT")
  ELSE IF ~(args.tickUpper <= MAX_TICK) THEN Failure("TICK_UPPER_LIMIT")
  ELSE IF ~(args.tierId < Len(args.pool.tiers)) THEN Failure("TIER_ID")
  ELSE IF ~(args.limitOrderType = <<>> \/ args.limitOrderType[1] \in LimitOrderType)
  THEN Failure("LIMIT_ORDER_TYPE")
  ELSE IF /\ args.settled = <<TRUE>>
          /\ ~(args.limitOrderType # <<>> /\ args.limitOrderType[1] # NotLimitOrder)
  THEN Failure("LIMIT_ORDER_TYPE")
  ELSE [pool           |-> args.pool,
        tierId         |-> args.tierId,
        tickLower      |-> args.tickLower,
        tickUpper      |-> args.tickUpper,
        liquidityD8    |-> args.liquidityD8,
        limitOrderType |-> IF args.limitOrderType # <<>> THEN args.limitOrderType[1] ELSE NotLimitOrder,
        settled        |-> IF args.settled # <<>> THEN args.settled[1] ELSE FALSE,
        _token0Amount  |-> Null,
        _token1Amount  |-> Null,
        _mintAmounts   |-> Null,
        _settleAmounts |-> Null,
        _priceToSettle |-> Null]

\* args.amount0 and args.amount1 are BigintIsh: JSBI.BigInt of a JSBI is the
\* same number
fromAmounts(args) ==
  CHOOSE created \in
    {IF Failed(liquidityD8) THEN liquidityD8
     ELSE NewPosition([pool |-> args.pool, tierId |-> args.tierId, tickLower |-> args.tickLower,
                       tickUpper |-> args.tickUpper, liquidityD8 |-> liquidityD8,
                       limitOrderType |-> args.limitOrderType, settled |-> args.settled]) :
       liquidityD8 \in {maxOutputLiquidityD8ForAmounts(
                          args.pool.tiers[args.tierId + 1].sqrtPriceX72,
                          tickToSqrtPriceX72(args.tickLower), tickToSqrtPriceX72(args.tickUpper),
                          args.amount0, args.amount1)}} : TRUE

fromAmount0(args) ==
  fromAmounts([f \in DOMAIN args \cup {"amount1"} |-> IF f = "amount1" THEN MaxUint256 ELSE args[f]])

fromAmount1(args) ==
  fromAmounts([f \in DOMAIN args \cup {"amount0"} |-> IF f = "amount0" THEN MaxUint256 ELSE args[f]])

\* an index that is not one of the array reads undefined, written Null
poolTier(pos) ==
  IF ~(pos.tierId < Len(pos.pool.tiers)) THEN Failure("TIER_ID")
  ELSE IF pos.tierId + 1 \in DOMAIN pos.pool.tiers THEN pos.pool.tiers[pos.tierId + 1]
  ELSE Null

sqrtPriceLower(pos) == tickToSqrtPriceX72(pos.tickLower)

sqrtPriceUpper(pos) == tickToSqrtPriceX72(pos.tickUpper)

isLimitOrder(pos) == pos.limitOrderType = ZeroForOne \/ pos.limitOrderType = OneForZero

\* the boundary a limit order starts from, not the one it settles at
sqrtPriceSettleSwapped(pos) ==
  IF ~isLimitOrder(pos) THEN Failure("SQRT_PRICE_TO_SETTLE")
  ELSE IF pos.limitOrderType = ZeroForOne THEN sqrtPriceLower(pos) ELSE sqrtPriceUpper(pos)

sqrtPriceSettle(pos) ==
  IF ~isLimitOrder(pos) THEN Failure("SQRT_PRICE_TO_SETTLE")
  ELSE IF pos.limitOrderType = ZeroForOne THEN sqrtPriceUpper(pos) ELSE sqrtPriceLower(pos)

\* the position once the getter priceToSettle has run: it returns
\* _priceToSettle
priceToSettle(pos) ==
  IF ~isLimitOrder(pos) THEN Failure("PRICE_TO_SETTLE")
  ELSE IF pos._priceToSettle = Null
  THEN CHOOSE after \in
         {[pos EXCEPT !._priceToSettle = Price(pos.pool.token0, pos.pool.token1, Q144,
                                               multiply(sqrtPriceX72, sqrtPriceX72))] :
            sqrtPriceX72 \in {sqrtPriceSettle(pos)}} : TRUE
  ELSE pos

\* In the methods below a const of the source is a variable bound over a
\* one-element set: its value is computed once, where it is declared.

\* the amounts at the tier's price, whether the position is settled or not
computeTokenAmountsUnsettled(pos) ==
  IF pos._token0Amount = Null \/ pos._token1Amount = Null
  THEN CHOOSE after \in
         {[pos EXCEPT !._token0Amount = amounts.amount0, !._token1Amount = amounts.amount1] :
            amounts \in {amountsForLiquidityDeltaD8(
                           poolTier(pos).sqrtPriceX72, sqrtPriceLower(pos), sqrtPriceUpper(pos),
                           multiply(pos.liquidityD8, BigInt(-1)))}} : TRUE
  ELSE pos

\* the position once _computeTokenAmounts has run: the getters amount0 and
\* amount1 return its _token0Amount and _token1Amount, a CurrencyAmount
\* written here as the raw amount it wraps
computeTokenAmounts(pos) ==
  IF pos._token0Amount = Null \/ pos._token1Amount = Null
  THEN CHOOSE after \in
         {[pos EXCEPT !._token0Amount = amounts.amount0, !._token1Amount = amounts.amount1] :
            amounts \in {amountsForLiquidityDeltaD8(
                           IF pos.settled THEN sqrtPriceSettle(pos) ELSE poolTier(pos).sqrtPriceX72,
                           sqrtPriceLower(pos), sqrtPriceUpper(pos),
                           multiply(pos.liquidityD8, BigInt(-1)))}} : TRUE
  ELSE pos

amountsAtPrice(pos, sqrtPrice) ==
  amountsForLiquidityDeltaD8(sqrtPrice, sqrtPriceLower(pos), sqrtPriceUpper(pos),
                             multiply(pos.liquidityD8, BigInt(-1)))

mintAmountsAtPrice(pos, sqrtPrice) ==
  amountsForLiquidityDeltaD8(sqrtPrice, sqrtPriceLower(pos), sqrtPriceUpper(pos), pos.liquidityD8)

\* a cache shared with settleAmounts
mintAmountsOfSharedCache(pos) ==
  IF pos._mintAmounts = Null
  THEN CHOOSE after \in
         {[pos EXCEPT !._mintAmounts = amounts] :
            amounts \in {IF pos._settleAmounts # Null THEN pos._settleAmounts
                         ELSE mintAmountsAtPrice(pos, poolTier(pos).sqrtPriceX72)}} : TRUE
  ELSE pos

\* the position once the getter mintAmounts has run: it returns _mintAmounts
mintAmounts(pos) ==
  IF pos._mintAmounts = Null
  THEN CHOOSE after \in
         {[pos EXCEPT !._mintAmounts = amounts] :
            amounts \in {mintAmountsAtPrice(pos, poolTier(pos).sqrtPriceX72)}} : TRUE
  ELSE pos

\* the position once the getter settleAmounts has run: it returns
\* _settleAmounts, the object {} being the record of no field
settleAmounts(pos) ==
  IF pos._settleAmounts = Null
  THEN CHOOSE after \in
         {[pos EXCEPT !._settleAmounts = amounts] :
            amounts \in {IF isLimitOrder(pos) THEN amountsAtPrice(pos, sqrtPriceSettle(pos)) ELSE <<>>}} : TRUE
  ELSE pos

mintAmountsWithSlippage(pos, slippageTolerance) ==
  CHOOSE result \in
    {CHOOSE amounts \in
       {IF Failed(slipped) THEN slipped
        ELSE IF Failed(atUpper) THEN atUpper
        ELSE IF Failed(atLower) THEN atLower
        ELSE [amount0 |-> atUpper.amount0, amount1 |-> atLower.amount1] :
          atUpper \in {IF Failed(slipped) THEN slipped
                       ELSE minInputAmountsForLiquidityD8(slipped.sqrtPriceSlippageUpper, sqrtPLower,
                                                          sqrtPUpper, liquidityD8)},
          atLower \in {IF Failed(slipped) THEN slipped
                       ELSE minInputAmountsForLiquidityD8(slipped.sqrtPriceSlippageLower, sqrtPLower,
                                                          sqrtPUpper, liquidityD8)}} : TRUE :
       sqrtPLower \in {sqrtPriceLower(pos)},
       sqrtPUpper \in {sqrtPriceUpper(pos)},
       liquidityD8 \in {CHOOSE l \in
                          {maxOutputLiquidityD8ForAmounts(poolTier(pos).sqrtPriceX72, sqrtPriceLower(pos),
                                                          sqrtPriceUpper(pos), minted.amount0,
                                                          minted.amount1) :
                             minted \in {mintAmounts(pos)._mintAmounts}} : TRUE},
       slipped \in {sqrtPriceAfterSlippage(poolTier(pos), slippageTolerance)}} : TRUE

\* the two tolerated prices taken the other way round
burnAmountsWithSlippageSwapped(pos, slippageTolerance) ==
  CHOOSE result \in
    {IF Failed(slipped) THEN slipped
     ELSE CHOOSE amounts \in
            {IF Failed(atLower) THEN atLower
             ELSE IF Failed(atUpper) THEN atUpper
             ELSE [amount0 |-> atLower.amount0, amount1 |-> atUpper.amount1] :
               atLower \in {minOutputAmountsForLiquidityD8(slipped.sqrtPriceSlippageLower, sqrtPLower,
                                                           sqrtPUpper, pos.liquidityD8)},
               atUpper \in {minOutputAmountsForLiquidityD8(slipped.sqrtPriceSlippageUpper, sqrtPLower,
                                                           sqrtPUpper, pos.liquidityD8)}} : TRUE :
       sqrtPLower \in {sqrtPriceLower(pos)},
       sqrtPUpper \in {sqrtPriceUpper(pos)},
       slipped \in {sqrtPriceAfterSlippage(poolTier(pos), slippageTolerance)}} : TRUE

burnAmountsWithSlippage(pos, slippageTolerance) ==
  CHOOSE result \in
    {IF Failed(slipped) THEN slipped
     ELSE IF pos.settled
     THEN minOutputAmountsForLiquidityD8(
            IF pos.limitOrderType = ZeroForOne THEN sqrtPUpper ELSE sqrtPLower,
            sqrtPLower, sqrtPUpper, pos.liquidityD8)
     ELSE CHOOSE amounts \in
            {IF Failed(atUpper) THEN atUpper
             ELSE IF Failed(atLower) THEN atLower
             ELSE [amount0 |-> atUpper.amount0, amount1 |-> atLower.amount1] :
               atUpper \in {minOutputAmountsForLiquidityD8(slipped.sqrtPriceSlippageUpper, sqrtPLower,
                                                           sqrtPUpper, pos.liquidityD8)},
               atLower \in {minOutputAmountsForLiquidityD8(slipped.sqrtPriceSlippageLower, sqrtPLower,
                                                           sqrtPUpper, pos.liquidityD8)}} : TRUE :
       sqrtPLower \in {sqrtPriceLower(pos)},
       sqrtPUpper \in {sqrtPriceUpper(pos)},
       slipped \in {sqrtPriceAfterSlippage(poolTier(pos), slippageTolerance)}} : TRUE

(***************************************************************************)
(* State.                                                                  *)
(***************************************************************************)
VARIABLES
  tick,          \* TickMath: the tick handed to tickToSqrtPriceX72
  sqrtPriceX72,  \* TickMath: what tickToSqrtPriceX72(tick) returned
  sqrtPriceIn,   \* TickMath: the price handed to sqrtPriceX72ToTick
  tickOut,       \* TickMath: what sqrtPriceX72ToTick(sqrtPriceIn) returned
  pm,            \* PoolMath: the call made, its arguments and what it returned
  newArgs,       \* Position: the arguments handed to the constructor
  position,      \* Position: the object constructed, with its cached fields
  ret,           \* Position, Trade: the member read or called and what it returned
  route,         \* Route: the object constructed
  trade,         \* Trade: the object constructed, with its cached fields
  tier           \* Tier: the object constructed, with its cached fields

tickVars == <<tick, sqrtPriceX72, sqrtPriceIn, tickOut>>
posVars == <<newArgs, position, ret>>
tradeVars == <<route, trade, tier>>
vars == <<tickVars, pm, posVars, tradeVars>>

\* a call not made yet
Pending == [pending |-> TRUE]

\* no call of PoolMath is under test
NoCall == [op |-> "none"]

\* the call has returned
Returned(call) == "ret" \in DOMAIN call

(***************************************************************************)
(* TickMath under test: tickToSqrtPriceX72 on a sample of ticks, then      *)
(* sqrtPriceX72ToTick on the price returned and on its two neighbours.     *)
(***************************************************************************)
TickWindow == 2

\* the ticks tried: at the limits, about 0, about the two ticks next to
\* which tickLow's offset changes, and with one bit or all low bits set
InitTick ==
  /\ tick \in ((MIN_TICK - 1)..(MIN_TICK + TickWindow))
               \cup ((MAX_TICK - TickWindow)..(MAX_TICK + 1))
               \cup ((-TickWindow)..TickWindow)
               \cup UNION {(t - TickWindow)..(t + TickWindow) : t \in {-676363, -476363}}
               \cup UNION {{2^k, -(2^k), 2^k - 1, 1 - 2^k} : k \in 0..19}
  /\ sqrtPriceX72 = Pending
  /\ sqrtPriceIn = Pending
  /\ tickOut = Pending
  /\ pm = NoCall
  /\ newArgs = Null
  /\ position = Null
  /\ ret = Null
  /\ route = Null
  /\ trade = Null
  /\ tier = Null

CallTickToSqrtPriceX72 ==
  /\ sqrtPriceX72 = Pending
  /\ sqrtPriceX72' = tickToSqrtPriceX72(tick)
  /\ UNCHANGED <<tick, sqrtPriceIn, tickOut, pm, posVars, tradeVars>>

CallSqrtPriceX72ToTick ==
  /\ sqrtPriceX72 # Pending
  /\ ~Failed(sqrtPriceX72)
  /\ sqrtPriceIn = Pending
  /\ \E d \in {-1, 0, 1} :
       /\ sqrtPriceIn' = add(sqrtPriceX72, BigInt(d))
       /\ tickOut' = sqrtPriceX72ToTick(sqrtPriceIn')
  /\ UNCHANGED <<tick, sqrtPriceX72, pm, posVars, tradeVars>>

SpecTick == InitTick /\ [][CallTickToSqrtPriceX72 \/ CallSqrtPriceX72ToTick]_vars

(***************************************************************************)
(* PoolMath under test: each function called once on prices at and off     *)
(* the ticks, on both sides of a range and inside it.                      *)
(***************************************************************************)
PoolWindow == 0

E18 == Dec(<<1, 000, 000, 000, 000, 000, 000>>)

RangePrices ==
  {tickToSqrtPriceX72(t) : t \in {MIN_TICK, MAX_TICK} \cup ((-PoolWindow)..(PoolWindow + 1))}

CurrentPrices == RangePrices \cup {add(MIN_SQRT_PRICE, ONE), add(Q72, ONE)}

\* the calls to make: the function and its arguments
InitPool ==
  /\ tick = 0
  /\ sqrtPriceX72 = Pending
  /\ sqrtPriceIn = Pending
  /\ tickOut = Pending
  /\ pm \in
       {[op |-> f, sqrtP0 |-> p0, sqrtP1 |-> p1, liquidity |-> l] :
          f \in {"calcAmount0Delta", "calcAmount1Delta"},
          p0 \in CurrentPrices, p1 \in CurrentPrices,
          l \in {ZERO, ONE, BigInt(256), E18, leftShift(ONE, 127)}}
       \cup
       {[op |-> "amountsForLiquidityDeltaD8", sqrtPCurrent |-> c, sqrtPLower |-> l, sqrtPUpper |-> u,
         liquidityDeltaD8 |-> d] :
          c \in CurrentPrices, l \in RangePrices, u \in RangePrices,
          d \in {ZERO, ONE, BigInt(-1), E18, negate(E18)}}
       \cup
       {[op |-> f, sqrtPCurrent |-> c, sqrtPLower |-> l, sqrtPUpper |-> u, amount0 |-> a0, amount1 |-> a1] :
          f \in {"maxOutputLiquidityForAmounts", "maxOutputLiquidityD8ForAmounts"},
          c \in CurrentPrices, l \in RangePrices, u \in RangePrices,
          a0 \in {ZERO, ONE, E18, MaxUint256}, a1 \in {ZERO, ONE, E18, MaxUint256}}
  /\ newArgs = Null
  /\ position = Null
  /\ ret = Null
  /\ route = Null
  /\ trade = Null
  /\ tier = Null

CallCalcAmount0Delta ==
  /\ pm.op = "calcAmount0Delta" /\ ~Returned(pm)
  /\ pm' = [ret |-> calcAmount0Delta(pm.sqrtP0, pm.sqrtP1, pm.liquidity)] @@ pm
  /\ UNCHANGED <<tickVars, posVars, tradeVars>>

CallCalcAmount1Delta ==
  /\ pm.op = "calcAmount1Delta" /\ ~Returned(pm)
  /\ pm' = [ret |-> calcAmount1Delta(pm.sqrtP0, pm.sqrtP1, pm.liquidity)] @@ pm
  /\ UNCHANGED <<tickVars, posVars, tradeVars>>

CallAmountsForLiquidityDeltaD8 ==
  /\ pm.op = "amountsForLiquidityDeltaD8" /\ ~Returned(pm)
  /\ pm' = [ret |-> amountsForLiquidityDeltaD8(pm.sqrtPCurrent, pm.sqrtPLower, pm.sqrtPUpper,
                                               pm.liquidityDeltaD8)] @@ pm
  /\ UNCHANGED <<tickVars, posVars, tradeVars>>

CallMaxOutputLiquidityForAmounts ==
  /\ pm.op = "maxOutputLiquidityForAmounts" /\ ~Returned(pm)
  /\ pm' = [ret |-> maxOutputLiquidityForAmounts(pm.sqrtPCurrent, pm.sqrtPLower, pm.sqrtPUpper,
                                                 pm.amount0, pm.amount1)] @@ pm
  /\ UNCHANGED <<tickVars, posVars, tradeVars>>

CallMaxOutputLiquidityD8ForAmounts ==
  /\ pm.op = "maxOutputLiquidityD8ForAmounts" /\ ~Returned(pm)
  /\ pm' = [ret |-> maxOutputLiquidityD8ForAmounts(pm.sqrtPCurrent, pm.sqrtPLower, pm.sqrtPUpper,
                                                   pm.amount0, pm.amount1)] @@ pm
  /\ UNCHANGED <<tickVars, posVars, tradeVars>>

SpecPool ==
  InitPool /\ [][\/ CallCalcAmount0Delta
                 \/ CallCalcAmount1Delta
                 \/ CallAmountsForLiquidityDeltaD8
                 \/ CallMaxOutputLiquidityForAmounts
                 \/ CallMaxOutputLiquidityD8ForAmounts]_vars

(***************************************************************************)
(* Position under test: constructed from sampled arguments, then one       *)
(* member is read or called on it.                                         *)
(***************************************************************************)
PosWindow == 0

\* slippage tolerances as Percent(numerator, denominator): 0, 0.5 bps, 1%,
\* 100% and 200%
Tolerances ==
  {Fraction(BigInt(n[1]), BigInt(n[2])) : n \in {<<0, 1>>, <<5, 100000>>, <<1, 100>>, <<1, 1>>, <<2, 1>>}}

\* tokenA.sortsBefore(tokenB) refuses tokens of two chains and one token
\* given twice
Pool(tokenA, tokenB, tickSpacing, tiers) ==
  IF ~(tickSpacing > 0) THEN Failure("TICK_SPACING")
  ELSE IF ~(Len(tiers) > 0) THEN Failure("ZERO_TIERS")
  ELSE IF ~(tokenA.chainId = tokenB.chainId) THEN Failure("CHAIN_IDS")
  ELSE IF ~(tokenA.address # tokenB.address) THEN Failure("ADDRESSES")
  ELSE [token0 |-> IF tokenA.address < tokenB.address THEN tokenA ELSE tokenB,
        token1 |-> IF tokenA.address < tokenB.address THEN tokenB ELSE tokenA,
        tickSpacing |-> tickSpacing, tiers |-> tiers]

\* the ticks about the current tick 0 of a tier at price 1
NearTicks == ((-1 - PosWindow)..(-1)) \cup (2..(2 + PosWindow))

\* constructor arguments: open positions on tiers at the middle and at the
\* limits of the price range, settled limit orders, and arguments with every
\* optional field in every state, the ones the constructor refuses included
InitPos ==
  /\ tick = 0
  /\ sqrtPriceX72 = Pending
  /\ sqrtPriceIn = Pending
  /\ tickOut = Pending
  /\ pm = NoCall
  /\ newArgs \in
       {[pool |-> Pool(Token(1, 0), Token(1, 1), 1, <<Tier(p)>>), tierId |-> 0, tickLower |-> l, tickUpper |-> u, liquidityD8 |-> E18,
         limitOrderType |-> <<>>, settled |-> <<>>] :
          p \in {Q72, MIN_SQRT_PRICE, MAX_SQRT_PRICE},
          l \in {MIN_TICK} \cup NearTicks, u \in {MAX_TICK} \cup NearTicks}
       \cup
       {[pool |-> Pool(Token(1, 0), Token(1, 1), 1, <<Tier(Q72)>>), tierId |-> 0, tickLower |-> l, tickUpper |-> u, liquidityD8 |-> E18,
         limitOrderType |-> <<o>>, settled |-> <<TRUE>>] :
          l \in {MIN_TICK} \cup NearTicks, u \in {MAX_TICK} \cup NearTicks, o \in {ZeroForOne, OneForZero}}
       \cup
       {[pool |-> Pool(Token(1, 0), Token(1, 1), 2, <<Tier(Q72)>>), tierId |-> i, tickLower |-> l, tickUpper |-> u, liquidityD8 |-> d,
         limitOrderType |-> o, settled |-> b] :
          i \in {0, 1}, l \in {MIN_TICK - 1, -1, 2}, u \in {-1, 2, MAX_TICK + 1}, d \in {ZERO, BigInt(-1)},
          o \in {<<>>} \cup {<<t>> : t \in LimitOrderType \cup {3}},
          b \in {<<>>, <<FALSE>>, <<TRUE>>}}
  /\ position = Pending
  /\ ret = Pending
  /\ route = Null
  /\ trade = Null
  /\ tier = Null

CallNewPosition ==
  /\ position = Pending
  /\ position' = NewPosition(newArgs)
  /\ UNCHANGED <<tickVars, pm, tradeVars, newArgs, ret>>

\* the object is there and none of its members has been used
Constructed == position # Pending /\ ~Failed(position) /\ ret = Pending

\* position.amount0 and position.amount1
GetAmounts ==
  /\ Constructed
  /\ position' = computeTokenAmounts(position)
  /\ ret' = [op |-> "amounts",
             value |-> [amount0 |-> position'._token0Amount, amount1 |-> position'._token1Amount]]
  /\ UNCHANGED <<tickVars, pm, tradeVars, newArgs>>

GetMintAmounts ==
  /\ Constructed
  /\ position' = mintAmounts(position)
  /\ ret' = [op |-> "mintAmounts", value |-> position'._mintAmounts]
  /\ UNCHANGED <<tickVars, pm, tradeVars, newArgs>>

CallMintAmountsWithSlippage ==
  /\ Constructed
  /\ \E slippageTolerance \in Tolerances :
       /\ position' = mintAmounts(position)
       /\ ret' = [op |-> "mintAmountsWithSlippage", slippageTolerance |-> slippageTolerance,
                  value |-> mintAmountsWithSlippage(position, slippageTolerance)]
  /\ UNCHANGED <<tickVars, pm, tradeVars, newArgs>>

CallBurnAmountsWithSlippage ==
  /\ Constructed
  /\ \E slippageTolerance \in Tolerances :
       ret' = [op |-> "burnAmountsWithSlippage", slippageTolerance |-> slippageTolerance,
               value |-> burnAmountsWithSlippage(position, slippageTolerance)]
  /\ UNCHANGED <<tickVars, pm, tradeVars, newArgs, position>>

SpecPos ==
  InitPos /\ [][\/ CallNewPosition
                \/ GetAmounts
                \/ GetMintAmounts
                \/ CallMintAmountsWithSlippage
                \/ CallBurnAmountsWithSlippage]_vars

(***************************************************************************)
(* The constructor of Position under test: every argument it checks is     *)
(* tried inside, at and outside its limits, then the tier is read.         *)
(***************************************************************************)
MaxTiers == 2

InitConstructor ==
  /\ tick = 0
  /\ sqrtPriceX72 = Pending
  /\ sqrtPriceIn = Pending
  /\ tickOut = Pending
  /\ pm = NoCall
  /\ newArgs \in
       {[pool |-> Pool(Token(1, 0), Token(1, 1), 1, [k \in 1..n |-> Tier(Q72)]), tierId |-> i, tickLower |-> l, tickUpper |-> u,
         liquidityD8 |-> ZERO, limitOrderType |-> o, settled |-> b] :
          n \in 1..MaxTiers, i \in (-1)..MaxTiers,
          l \in {MIN_TICK - 1, MIN_TICK, -1, 2}, u \in {-1, 2, MAX_TICK, MAX_TICK + 1},
          o \in {<<>>} \cup {<<t>> : t \in LimitOrderType \cup {3}},
          b \in {<<>>, <<FALSE>>, <<TRUE>>}}
  /\ position = Pending
  /\ ret = Pending
  /\ route = Null
  /\ trade = Null
  /\ tier = Null

GetPoolTier ==
  /\ Constructed
  /\ ret' = [op |-> "poolTier", value |-> poolTier(position)]
  /\ UNCHANGED <<tickVars, pm, tradeVars, newArgs, position>>

SpecConstructor == InitConstructor /\ [][CallNewPosition \/ GetPoolTier]_vars

(***************************************************************************)
(* The amounts of a Position under test: a limit order or an open          *)
(* position is constructed on a tier below, inside or above its range, its *)
(* holding and settle amounts are read, and a Position is made anew from   *)
(* the holding amounts.                                                    *)
(***************************************************************************)
InitAmounts ==
  /\ tick = 0
  /\ sqrtPriceX72 = Pending
  /\ sqrtPriceIn = Pending
  /\ tickOut = Pending
  /\ pm = NoCall
  /\ newArgs \in
       {[pool |-> Pool(Token(1, 0), Token(1, 1), 1, <<Tier(p)>>), tierId |-> 0, tickLower |-> l, tickUpper |-> u, liquidityD8 |-> d,
         limitOrderType |-> o[1], settled |-> o[2]] :
          p \in {Q72, MIN_SQRT_PRICE, MAX_SQRT_PRICE},
          l \in {MIN_TICK, -1, 0}, u \in {0, 2, MAX_TICK}, d \in {ONE, E18},
          o \in {<<<<>>, <<>>>>, <<<<NotLimitOrder>>, <<FALSE>>>>} \cup
                ({<<ZeroForOne>>, <<OneForZero>>} \X {<<>>, <<TRUE>>})}
  /\ position = Pending
  /\ ret = Pending
  /\ route = Null
  /\ trade = Null
  /\ tier = Null

GetSettleAmounts ==
  /\ position # Pending
  /\ ~Failed(position)
  /\ position._settleAmounts = Null
  /\ position' = settleAmounts(position)
  /\ ret' = [op |-> "settleAmounts", value |-> position'._settleAmounts]
  /\ UNCHANGED <<tickVars, pm, tradeVars, newArgs>>

\* the arguments of the tests: the pool, tier and ticks of the position, and
\* the amounts it holds
FromAmountArgs ==
  [pool |-> position.pool, tierId |-> position.tierId, tickLower |-> position.tickLower,
   tickUpper |-> position.tickUpper, limitOrderType |-> <<>>, settled |-> <<>>]

AmountsRead == "op" \in DOMAIN ret /\ ret.op = "amounts"

CallFromAmounts ==
  /\ AmountsRead
  /\ ret' = [op |-> "fromAmounts",
             value |-> fromAmounts([f \in DOMAIN FromAmountArgs \cup {"amount0", "amount1"} |->
                                      IF f = "amount0" THEN position._token0Amount
                                      ELSE IF f = "amount1" THEN position._token1Amount
                                      ELSE FromAmountArgs[f]])]
  /\ UNCHANGED <<tickVars, pm, tradeVars, newArgs, position>>

CallFromAmount0 ==
  /\ AmountsRead
  /\ ret' = [op |-> "fromAmount0",
             value |-> fromAmount0([f \in DOMAIN FromAmountArgs \cup {"amount0"} |->
                                      IF f = "amount0" THEN position._token0Amount ELSE FromAmountArgs[f]])]
  /\ UNCHANGED <<tickVars, pm, tradeVars, newArgs, position>>

CallFromAmount1 ==
  /\ AmountsRead
  /\ ret' = [op |-> "fromAmount1",
             value |-> fromAmount1([f \in DOMAIN FromAmountArgs \cup {"amount1"} |->
                                      IF f = "amount1" THEN position._token1Amount ELSE FromAmountArgs[f]])]
  /\ UNCHANGED <<tickVars, pm, tradeVars, newArgs, position>>

SpecAmounts ==
  InitAmounts /\ [][\/ CallNewPosition
                    \/ GetAmounts
                    \/ GetSettleAmounts
                    \/ CallFromAmounts
                    \/ CallFromAmount0
                    \/ CallFromAmount1]_vars

(***************************************************************************)
(* Route.                                                                  *)
(***************************************************************************)
ALL_TIERS == 63

\* two tokens told apart by their chain alone
equalsChainOnly(tokenA, tokenB) == tokenA.chainId = tokenB.chainId

\* currencies told apart by their kind alone
equalsKindOnly(currencyA, currencyB) == currencyA.isNative = currencyB.isNative

\* Currency.equals of sdk-core: two tokens of the same chain and address, or
\* the native currency of the same chain twice
equals(currencyA, currencyB) ==
  /\ currencyA.isNative = currencyB.isNative
  /\ currencyA.chainId = currencyB.chainId
  /\ currencyA.isNative \/ currencyA.address = currencyB.address

\* Currency.wrapped of sdk-core: a token is itself, the native currency is
\* the wrapped token of its chain, taken to be the token of sort order 0
wrapped(currency) == IF currency.isNative THEN Token(currency.chainId, 0) ELSE currency

\* the tier choices as given, no bit dropped
keepTierChoices(choices, pool) == choices

\* the tier choices with one bit too many kept
cleanTierChoicesOneBitMore(choices, pool) ==
  IF choices >= 0 THEN choices % (2^(Len(pool.tiers) + 1)) ELSE -((-choices) % (2^(Len(pool.tiers) + 1)))

\* choices % (1 << pool.tiers.length): the remainder has the sign of choices
cleanTierChoices(choices, pool) ==
  IF choices >= 0 THEN choices % (2^Len(pool.tiers)) ELSE -((-choices) % (2^Len(pool.tiers)))

NewRoute(pools, tierChoicesList, input, output) ==
  IF ~(Len(pools) > 0) THEN Failure("POOLS")
  ELSE IF ~(\A i \in DOMAIN pools : pools[i].token0.chainId = pools[1].token0.chainId)
  THEN Failure("CHAIN_IDS")
  ELSE LET wrappedInput == wrapped(input)
           wrappedOutput == wrapped(output)
           involvesToken(pool, token) == equals(token, pool.token0) \/ equals(token, pool.token1)
           cleanedTierChoicesList ==
             [i \in DOMAIN tierChoicesList |-> cleanTierChoices(tierChoicesList[i], pools[i])]
           \* the token after i pools, or the failure of the walk
           token[i \in 0..Len(pools)] ==
             IF i = 0 THEN wrappedInput
             ELSE IF Failed(token[i - 1]) THEN token[i - 1]
             ELSE IF ~involvesToken(pools[i], token[i - 1]) THEN Failure("PATH")
             ELSE IF equals(token[i - 1], pools[i].token0) THEN pools[i].token1
             ELSE pools[i].token0
       IN  IF ~involvesToken(pools[1], wrappedInput) THEN Failure("INPUT")
           ELSE IF ~involvesToken(pools[Len(pools)], wrappedOutput) THEN Failure("OUTPUT")
           ELSE IF ~(Len(tierChoicesList) = Len(pools)) THEN Failure("TIER_CHOICES_COUNT")
           ELSE IF \E i \in DOMAIN tierChoicesList :
                     ~(tierChoicesList[i] <= ALL_TIERS /\ cleanedTierChoicesList[i] > 0)
           THEN Failure("TIER_CHOICES")
           ELSE IF Failed(token[Len(pools)]) THEN token[Len(pools)]
           ELSE IF ~equals(token[Len(pools)], wrappedOutput) THEN Failure("PATH")
           ELSE [pools           |-> pools,
                 tokenPath       |-> [i \in 1..(Len(pools) + 1) |-> token[i - 1]],
                 tierChoicesList |-> cleanedTierChoicesList,
                 input           |-> input,
                 output          |-> output]

(***************************************************************************)
(* The constructor of Route under test, on the pools of the tests (over    *)
(* tokens 0..3 of chain 1), a pool of another chain and the native         *)
(* currency: every list of at most MaxPools pools between every input and  *)
(* output, and every list of tier choices on the route token0 -> token2.   *)
(***************************************************************************)
MaxPools == 3

InitRoute ==
  /\ tick = 0
  /\ sqrtPriceX72 = Pending
  /\ sqrtPriceIn = Pending
  /\ tickOut = Pending
  /\ pm = NoCall
  /\ newArgs \in
       LET pool(chainId, a, b, n) == Pool(Token(chainId, a), Token(chainId, b), 1, [k \in 1..n |-> Tier(Q72)])
           pools == {pool(1, 0, 1, 2), pool(1, 1, 2, 2), pool(1, 2, 3, 2), pool(1, 0, 2, 2), pool(2, 0, 1, 2)}
           currencies == {Token(1, a) : a \in 0..3} \cup {[isNative |-> TRUE, chainId |-> 1]}
           choices == {-1, 0, 1, 2, 3, 4, 6, ALL_TIERS, ALL_TIERS + 1, 2 * ALL_TIERS}
       IN  {[pools |-> ps, tierChoicesList |-> [i \in DOMAIN ps |-> 1], input |-> in, output |-> out] :
              ps \in UNION {[1..n -> pools] : n \in 0..MaxPools}, in \in currencies, out \in currencies}
           \cup
           {[pools |-> <<pool(1, 0, 1, n), pool(1, 1, 2, n)>>, tierChoicesList |-> cs,
             input |-> Token(1, 0), output |-> Token(1, 2)] :
              n \in 1..MaxTiers, cs \in UNION {[1..k -> choices] : k \in 1..3}}
  /\ position = Null
  /\ ret = Null
  /\ route = Pending
  /\ trade = Null
  /\ tier = Null

CallNewRoute ==
  /\ route = Pending
  /\ route' = NewRoute(newArgs.pools, newArgs.tierChoicesList, newArgs.input, newArgs.output)
  /\ UNCHANGED <<tickVars, pm, posVars, trade, tier>>

SpecRoute == InitRoute /\ [][CallNewRoute]_vars

(***************************************************************************)
(* Trade. A CurrencyAmount is written as its currency and its quotient.    *)
(***************************************************************************)
TradeType == [EXACT_INPUT |-> 0, EXACT_OUTPUT |-> 1]

\* the first token's address alone
poolIdOfToken0(pool) == <<pool.token0.address>>

\* Pool.poolId, the hash of the two token addresses, written as the pair
\* that is hashed
poolId(pool) == <<pool.token0.address, pool.token1.address>>

\* routes[0] of an empty list is undefined, and reading its inputAmount a
\* TypeError
NewTrade(args) ==
  IF Len(args.routes) = 0 THEN Failure("TypeError")
  ELSE LET inputCurrency == args.routes[1].inputAmount.currency
           outputCurrency == args.routes[1].outputAmount.currency
           \* a Route has a pool at least, so the lengths make a bag
           numPools == BagCardinality([i \in DOMAIN args.routes |-> Len(args.routes[i].route.pools)])
           poolIdSet == UNION {{poolId(args.routes[i].route.pools[k]) :
                                  k \in DOMAIN args.routes[i].route.pools} : i \in DOMAIN args.routes}
       IN  IF ~(\A i \in DOMAIN args.routes :
                  equals(wrapped(inputCurrency), wrapped(args.routes[i].route.input)))
           THEN Failure("INPUT_CURRENCY_MATCH")
           ELSE IF ~(\A i \in DOMAIN args.routes :
                       equals(wrapped(outputCurrency), wrapped(args.routes[i].route.output)))
           THEN Failure("OUTPUT_CURRENCY_MATCH")
           ELSE IF ~(numPools = Cardinality(poolIdSet)) THEN Failure("POOLS_DUPLICATED")
           ELSE [swaps |-> args.routes, tradeType |-> args.tradeType,
                 _inputAmount |-> Null, _outputAmount |-> Null, _executionPrice |-> Null]

\* the sum of the swaps' input amounts, CurrencyAmount.add refusing an amount
\* of another currency
inputAmount(tr) ==
  IF tr._inputAmount # Null THEN tr._inputAmount
  ELSE LET amount[i \in 0..Len(tr.swaps)] ==
             IF i = 0 THEN [currency |-> tr.swaps[1].inputAmount.currency, quotient |-> ZERO]
             ELSE IF Failed(amount[i - 1]) THEN amount[i - 1]
             ELSE IF ~equals(amount[i - 1].currency, tr.swaps[i].inputAmount.currency)
             THEN Failure("CURRENCY")
             ELSE [currency |-> amount[i - 1].currency,
                   quotient |-> add(amount[i - 1].quotient, tr.swaps[i].inputAmount.quotient)]
       IN  amount[Len(tr.swaps)]

outputAmount(tr) ==
  IF tr._outputAmount # Null THEN tr._outputAmount
  ELSE LET amount[i \in 0..Len(tr.swaps)] ==
             IF i = 0 THEN [currency |-> tr.swaps[1].outputAmount.currency, quotient |-> ZERO]
             ELSE IF Failed(amount[i - 1]) THEN amount[i - 1]
             ELSE IF ~equals(amount[i - 1].currency, tr.swaps[i].outputAmount.currency)
             THEN Failure("CURRENCY")
             ELSE [currency |-> amount[i - 1].currency,
                   quotient |-> add(amount[i - 1].quotient, tr.swaps[i].outputAmount.quotient)]
       IN  amount[Len(tr.swaps)]

\* new Price(inputAmount.currency, outputAmount.currency,
\* inputAmount.quotient, outputAmount.quotient): the input amount is read
\* first
executionPrice(tr) ==
  IF tr._executionPrice # Null THEN tr._executionPrice
  ELSE IF Failed(inputAmount(tr)) THEN inputAmount(tr)
  ELSE IF Failed(outputAmount(tr)) THEN outputAmount(tr)
  ELSE Price(inputAmount(tr).currency, outputAmount(tr).currency,
             inputAmount(tr).quotient, outputAmount(tr).quotient)

\* amountOut is the default argument, this.outputAmount, read before the
\* tolerance is looked at; Fraction.lessThan cross-multiplies, invert swaps
\* numerator and denominator, quotient divides
minimumAmountOut(tr, slippageTolerance) ==
  CHOOSE result \in
    {IF Failed(amountOut) THEN amountOut
     ELSE IF lessThan(multiply(slippageTolerance.numerator, ONE), multiply(ZERO, slippageTolerance.denominator))
     THEN Failure("SLIPPAGE_TOLERANCE")
     ELSE IF tr.tradeType = TradeType.EXACT_OUTPUT THEN amountOut
     ELSE LET onePlus == fractionAdd(Fraction(ONE, ONE), slippageTolerance)
              adjusted == fractionMultiply(Fraction(onePlus.denominator, onePlus.numerator),
                                           Fraction(amountOut.quotient, ONE))
          IN  [currency |-> amountOut.currency, quotient |-> divide(adjusted.numerator, adjusted.denominator)] :
       amountOut \in {outputAmount(tr)}} : TRUE

maximumAmountIn(tr, slippageTolerance) ==
  CHOOSE result \in
    {IF Failed(amountIn) THEN amountIn
     ELSE IF lessThan(multiply(slippageTolerance.numerator, ONE), multiply(ZERO, slippageTolerance.denominator))
     THEN Failure("SLIPPAGE_TOLERANCE")
     ELSE IF tr.tradeType = TradeType.EXACT_INPUT THEN amountIn
     ELSE LET adjusted == fractionMultiply(fractionAdd(Fraction(ONE, ONE), slippageTolerance),
                                           Fraction(amountIn.quotient, ONE))
          IN  [currency |-> amountIn.currency, quotient |-> divide(adjusted.numerator, adjusted.denominator)] :
       amountIn \in {inputAmount(tr)}} : TRUE

(***************************************************************************)
(* Trade under test: constructed from one to MaxSwaps swaps over routes of *)
(* the test pools, then asked for its amounts under a slippage tolerance.  *)
(***************************************************************************)
MaxSwaps == 2

InitTrade ==
  /\ tick = 0
  /\ sqrtPriceX72 = Pending
  /\ sqrtPriceIn = Pending
  /\ tickOut = Pending
  /\ pm = NoCall
  /\ newArgs \in
       LET pool(a, b) == Pool(Token(1, a), Token(1, b), 1, <<Tier(Q72), Tier(Q72)>>)
           native == [isNative |-> TRUE, chainId |-> 1]
           routes == {NewRoute(<<pool(0, 1), pool(1, 2)>>, <<3, 3>>, Token(1, 0), Token(1, 2)),
                      NewRoute(<<pool(0, 2)>>, <<3>>, Token(1, 0), Token(1, 2)),
                      NewRoute(<<pool(0, 2)>>, <<3>>, native, Token(1, 2)),
                      NewRoute(<<pool(1, 2)>>, <<3>>, Token(1, 1), Token(1, 2)),
                      NewRoute(<<pool(0, 1)>>, <<3>>, Token(1, 0), Token(1, 1)),
                      NewRoute(<<pool(0, 1), pool(0, 1), pool(0, 2)>>, <<3, 3, 3>>, Token(1, 0), Token(1, 2))}
           swaps == {[route |-> r, inputAmount |-> [currency |-> r.input, quotient |-> BigInt(q[1])],
                      outputAmount |-> [currency |-> r.output, quotient |-> BigInt(q[2])]] :
                       r \in routes, q \in {<<1000, 997>>, <<3, 5>>}}
                    \cup
                    {[route |-> r, inputAmount |-> [currency |-> c[1], quotient |-> BigInt(1000)],
                      outputAmount |-> [currency |-> c[2], quotient |-> BigInt(997)]] :
                       r \in {NewRoute(<<pool(0, 2)>>, <<3>>, Token(1, 0), Token(1, 2))},
                       c \in {<<native, Token(1, 2)>>, <<Token(1, 1), Token(1, 2)>>, <<Token(1, 0), Token(1, 3)>>}}
       IN  {[routes |-> rs, tradeType |-> t] :
              rs \in UNION {[1..n -> swaps] : n \in 0..MaxSwaps},
              t \in {TradeType.EXACT_INPUT, TradeType.EXACT_OUTPUT}}
  /\ position = Null
  /\ ret = Pending
  /\ route = Null
  /\ trade = Pending
  /\ tier = Null

CallNewTrade ==
  /\ trade = Pending
  /\ trade' = NewTrade(newArgs)
  /\ UNCHANGED <<tickVars, pm, newArgs, position, ret, route, tier>>

\* trade.minimumAmountOut(slippageTolerance), which fills the cache of
\* outputAmount on its way
CallMinimumAmountOut ==
  /\ trade # Pending
  /\ ~Failed(trade)
  /\ ret = Pending
  /\ \E slippageTolerance \in Tolerances \cup {Fraction(BigInt(-1), BigInt(100)), Fraction(BigInt(1), BigInt(3))} :
       /\ ret' = [op |-> "minimumAmountOut", slippageTolerance |-> slippageTolerance,
                  value |-> minimumAmountOut(trade, slippageTolerance)]
       /\ trade' = IF Failed(outputAmount(trade)) THEN trade
                   ELSE [trade EXCEPT !._outputAmount = outputAmount(trade)]
  /\ UNCHANGED <<tickVars, pm, newArgs, position, route, tier>>

CallMaximumAmountIn ==
  /\ trade # Pending
  /\ ~Failed(trade)
  /\ ret = Pending
  /\ \E slippageTolerance \in Tolerances \cup {Fraction(BigInt(-1), BigInt(100)), Fraction(BigInt(1), BigInt(3))} :
       /\ ret' = [op |-> "maximumAmountIn", slippageTolerance |-> slippageTolerance,
                  value |-> maximumAmountIn(trade, slippageTolerance)]
       /\ trade' = IF Failed(inputAmount(trade)) THEN trade
                   ELSE [trade EXCEPT !._inputAmount = inputAmount(trade)]
  /\ UNCHANGED <<tickVars, pm, newArgs, position, route, tier>>

SpecTrade == InitTrade /\ [][CallNewTrade \/ CallMinimumAmountOut \/ CallMaximumAmountIn]_vars

(***************************************************************************)
(* utils/swap: the figures of a trade computed from the hops that the      *)
(* quoter simulated. A Hop is its tierAmountsIn, a list of numbers or of    *)
(* decimal strings, written as a list of integers. A CurrencyAmount that   *)
(* need not be whole is written as its currency and its fraction. The      *)
(* price getters of the tiers are taken by what they compute.              *)
(***************************************************************************)
\* the distribution of the earlier SDK, which divides by the sum as it is
getAmountInDistribution(hop) ==
  LET tierAmtsIn == [i \in DOMAIN hop.tierAmountsIn |-> BigInt(hop.tierAmountsIn[i])]
      acc[i \in 0..Len(tierAmtsIn)] == IF i = 0 THEN ZERO ELSE add(acc[i - 1], tierAmtsIn[i])
  IN  [i \in DOMAIN tierAmtsIn |-> Fraction(tierAmtsIn[i], acc[Len(tierAmtsIn)])]

getInputAmountDistribution(hop) ==
  LET tierAmtsIn == [i \in DOMAIN hop.tierAmountsIn |-> BigInt(hop.tierAmountsIn[i])]
      acc[i \in 0..Len(tierAmtsIn)] == IF i = 0 THEN ZERO ELSE add(acc[i - 1], tierAmtsIn[i])
      sumAmtIn == acc[Len(tierAmtsIn)]
  IN  IF sumAmtIn = ZERO
      THEN [i \in DOMAIN tierAmtsIn |-> Fraction(BigInt(1), BigInt(Len(tierAmtsIn)))]
      ELSE [i \in DOMAIN tierAmtsIn |-> Fraction(tierAmtsIn[i], sumAmtIn)]

\* CurrencyAmount.fromFractionalAmount of @uniswap/sdk-core: the constructor
\* computes the quotient, which JSBI refuses for a zero denominator, and
\* refuses a quotient above MaxUint256
fromFractionalAmount(currency, numerator, denominator) ==
  IF denominator = ZERO THEN Failure("RangeError")
  ELSE IF ~lessThanOrEqual(divide(numerator, denominator), MaxUint256) THEN Failure("AMOUNT")
  ELSE [currency |-> currency, numerator |-> numerator, denominator |-> denominator]

\* the plain mean of the prices, their weights left out
computeAveragePriceUnweighted(pricesAndWeights) ==
  IF ~(Len(pricesAndWeights) > 0) THEN Failure("INVALID_ARGS_COMPUTING_AVG_PRICE")
  ELSE LET z[i \in 0..Len(pricesAndWeights)] ==
             IF i = 0 THEN Fraction(ZERO, ONE)
             ELSE fractionAdd(z[i - 1], fractionMultiply(pricesAndWeights[i].price,
                                                          Fraction(ONE, BigInt(Len(pricesAndWeights)))))
       IN  Price(pricesAndWeights[1].price.baseCurrency, pricesAndWeights[1].price.quoteCurrency,
                 z[Len(pricesAndWeights)].denominator, z[Len(pricesAndWeights)].numerator)

computeAveragePrice(pricesAndWeights) ==
  IF ~(Len(pricesAndWeights) > 0) THEN Failure("INVALID_ARGS_COMPUTING_AVG_PRICE")
  ELSE LET base  == pricesAndWeights[1].price.baseCurrency
           quote == pricesAndWeights[1].price.quoteCurrency
           z[i \in 0..Len(pricesAndWeights)] ==
             IF i = 0 THEN Fraction(ZERO, ONE)
             ELSE CHOOSE sum \in
                    {IF Failed(before) THEN before
                     ELSE IF ~equals(pricesAndWeights[i].price.baseCurrency, base)
                     THEN Failure("AVG_PRICE__UNMATCHED_BASE")
                     ELSE IF ~equals(pricesAndWeights[i].price.quoteCurrency, quote)
                     THEN Failure("AVG_PRICE__UNMATCHED_QUOTE")
                     ELSE fractionAdd(before, weighted) :
                       before \in {z[i - 1]},
                       weighted \in {fractionMultiply(pricesAndWeights[i].price, pricesAndWeights[i].percent)}} : TRUE
       IN  CHOOSE price \in
             {IF Failed(last) THEN last ELSE Price(base, quote, last.denominator, last.numerator) :
                last \in {z[Len(pricesAndWeights)]}} : TRUE

\* Price.multiply refuses (TOKEN) a factor whose base is not this price's
\* quote currency
getRouteMarginalPrice(rt, hops) ==
  IF ~(Len(hops) = Len(rt.pools)) THEN Failure("INVALID_HOPS_LENGTH")
  ELSE LET step[j \in 0..Len(rt.pools)] ==
             IF j = 0 THEN [input |-> wrapped(rt.input), price |-> Null]
             ELSE CHOOSE after \in
                    {IF Failed(before) THEN before
                     ELSE IF ~(Len(hops[j].tierAmountsIn) <= Len(pool.tiers))
                     THEN Failure("INVALID_AMOUNTS_IN_LENGTH")
                     ELSE CHOOSE next \in
                            {IF Failed(avgPrice) THEN avgPrice
                             ELSE IF before.price # Null /\ ~equals(before.price.quoteCurrency, avgPrice.baseCurrency)
                             THEN Failure("TOKEN")
                             ELSE [input |-> IF equals(pool.token0, before.input) THEN pool.token1 ELSE pool.token0,
                                   price |-> IF before.price = Null THEN avgPrice
                                             ELSE CHOOSE price \in
                                                    {Price(before.price.baseCurrency, avgPrice.quoteCurrency,
                                                           product.denominator, product.numerator) :
                                                       product \in {fractionMultiply(before.price, avgPrice)}} :
                                                    TRUE] :
                               avgPrice \in
                                 {CHOOSE average \in
                                    {computeAveragePrice(pricesAndWeights) :
                                       pricesAndWeights \in
                                         {[tierId \in DOMAIN percents |->
                                             [price   |-> IF equals(pool.token0, before.input)
                                                          THEN token0Price(pool.tiers[tierId])
                                                          ELSE token1Price(pool.tiers[tierId]),
                                              percent |-> percents[tierId]]]}} : TRUE}} : TRUE :
                       before \in {step[j - 1]}, pool \in {rt.pools[j]},
                       percents \in {getInputAmountDistribution(hops[j])}} : TRUE
       IN  CHOOSE price \in
             {IF Failed(last) THEN last
              ELSE IF last.price = Null THEN Price(rt.input, rt.output, ONE, ZERO)
              ELSE IF ~equals(last.price.baseCurrency, wrapped(rt.input)) THEN Failure("UNMATCHED_BASE")
              ELSE IF ~equals(last.price.quoteCurrency, wrapped(rt.output)) THEN Failure("UNMATCHED_QUOTE")
              ELSE Price(rt.input, rt.output, last.price.denominator, last.price.numerator) :
                last \in {step[Len(rt.pools)]}} : TRUE

\* the hops left in the order given
keepHops(hopsList) == hopsList

\* [...hops].reverse() of every route's hops
reverseHops(hopsList) ==
  [i \in DOMAIN hopsList |-> [j \in DOMAIN hopsList[i] |-> hopsList[i][Len(hopsList[i]) + 1 - j]]]

\* swap.inputAmount.divide(trade.inputAmount) builds a CurrencyAmount of the
\* quotient of the two fractions; the swaps are gone through in order, and
\* the first that fails ends the call
getTradeMarginalPrice(tr, hopsList) ==
  CHOOSE result \in
    {IF ~(Len(hops) = Len(tr.swaps)) THEN Failure("INVALID_HOPS_LIST_LENGTH")
     ELSE LET pricesAndWeights[i \in 0..Len(tr.swaps)] ==
                IF i = 0 THEN [list |-> <<>>]
                ELSE CHOOSE after \in
                       {IF Failed(before) THEN before
                        ELSE IF Failed(price) THEN price
                        ELSE IF Failed(total) THEN total
                        ELSE CHOOSE next \in
                               {IF Failed(percent) THEN percent
                                ELSE [list |-> Append(before.list,
                                                      [price   |-> price,
                                                       percent |-> Fraction(percent.numerator,
                                                                            percent.denominator)])] :
                                  percent \in {fromFractionalAmount(tr.swaps[i].inputAmount.currency,
                                                                    multiply(tr.swaps[i].inputAmount.quotient, ONE),
                                                                    multiply(ONE, total.quotient))}} : TRUE :
                          before \in {pricesAndWeights[i - 1]},
                          price \in {getRouteMarginalPrice(tr.swaps[i].route, hops[i])}} : TRUE
          IN  CHOOSE price \in
                {IF Failed(last) THEN last
                 ELSE CHOOSE average \in
                        {IF Failed(price) THEN price
                         ELSE Price(tr.swaps[1].inputAmount.currency, tr.swaps[1].outputAmount.currency,
                                    price.denominator, price.numerator) :
                           price \in {computeAveragePrice(last.list)}} : TRUE :
                   last \in {pricesAndWeights[Len(tr.swaps)]}} : TRUE :
       hops \in {IF tr.tradeType = TradeType.EXACT_OUTPUT THEN reverseHops(hopsList) ELSE hopsList},
       total \in {inputAmount(tr)}} : TRUE

\* CurrencyAmount.multiply, Price.quote (which refuses, TOKEN, an amount
\* that is not in the price's base currency) and CurrencyAmount.add (which
\* refuses, CURRENCY, an amount of another currency) each build their
\* result with fromFractionalAmount
getRouteMarginalOutputAmount(rt, amountIn, hops) ==
  IF ~(Len(hops) = Len(rt.pools)) THEN Failure("INVALID_HOPS_LENGTH")
  ELSE IF ~(\/ equals(wrapped(amountIn.currency), rt.pools[1].token0)
            \/ equals(wrapped(amountIn.currency), rt.pools[1].token1))
  THEN Failure("INPUT_TOKEN")
  ELSE LET step[i \in 0..Len(rt.pools)] ==
             IF i = 0 THEN [currency |-> wrapped(amountIn.currency), numerator |-> amountIn.quotient,
                            denominator |-> ONE]
             ELSE CHOOSE after \in
                    {IF Failed(inputAmount0) THEN inputAmount0
                     ELSE IF ~(Len(hops[i].tierAmountsIn) <= Len(pool.tiers))
                     THEN Failure("INVALID_AMOUNTS_IN_LENGTH")
                     ELSE LET input  == inputAmount0.currency
                              output == IF equals(input, pool.token0) THEN pool.token1 ELSE pool.token0
                              spotOutputAmount[tierId \in 0..Len(percents)] ==
                                IF tierId = 0 THEN [currency |-> output, numerator |-> ZERO, denominator |-> ONE]
                                ELSE CHOOSE sum \in
                                       {IF Failed(before) THEN before
                                        ELSE IF Failed(tierAmtIn) THEN tierAmtIn
                                        ELSE IF ~equals(tierAmtIn.currency, price.baseCurrency) THEN Failure("TOKEN")
                                        ELSE CHOOSE next \in
                                               {IF Failed(quoted) THEN quoted
                                                ELSE IF ~equals(before.currency, quoted.currency)
                                                THEN Failure("CURRENCY")
                                                ELSE CHOOSE total \in
                                                       {fromFractionalAmount(before.currency, added.numerator,
                                                                             added.denominator) :
                                                          added \in {fractionAdd(before, quoted)}} : TRUE :
                                                  quoted \in {fromFractionalAmount(
                                                                price.quoteCurrency,
                                                                multiply(price.numerator, tierAmtIn.numerator),
                                                                multiply(price.denominator,
                                                                         tierAmtIn.denominator))}} : TRUE :
                                          before \in {spotOutputAmount[tierId - 1]},
                                          tierAmtIn \in {fromFractionalAmount(
                                                           input,
                                                           multiply(inputAmount0.numerator,
                                                                    percents[tierId].numerator),
                                                           multiply(inputAmount0.denominator,
                                                                    percents[tierId].denominator))},
                                          price \in {IF equals(input, pool.token0)
                                                     THEN token0Price(pool.tiers[tierId])
                                                     ELSE token1Price(pool.tiers[tierId])}} : TRUE
                          IN  spotOutputAmount[Len(percents)] :
                       inputAmount0 \in {step[i - 1]}, pool \in {rt.pools[i]},
                       percents \in {getInputAmountDistribution(hops[i])}} : TRUE
       IN  CHOOSE amount \in
             {IF Failed(last) THEN last
              ELSE fromFractionalAmount(rt.output, last.numerator, last.denominator) :
                last \in {step[Len(rt.pools)]}} : TRUE

getTradeMaringalOutputAmount(tr, hopsList) ==
  CHOOSE result \in
    {IF ~(Len(hops) = Len(tr.swaps)) THEN Failure("INVALID_HOPS_LIST_LENGTH")
     ELSE IF Failed(output) THEN output
     ELSE LET amount[i \in 0..Len(tr.swaps)] ==
                IF i = 0 THEN [currency |-> output.currency, numerator |-> ZERO, denominator |-> ONE]
                ELSE CHOOSE sum \in
                       {IF Failed(before) THEN before
                        ELSE IF Failed(routeAmount) THEN routeAmount
                        ELSE IF ~equals(before.currency, routeAmount.currency) THEN Failure("CURRENCY")
                        ELSE CHOOSE total \in
                               {fromFractionalAmount(before.currency, added.numerator, added.denominator) :
                                  added \in {fractionAdd(before, routeAmount)}} : TRUE :
                          before \in {amount[i - 1]},
                          routeAmount \in {getRouteMarginalOutputAmount(tr.swaps[i].route,
                                                                        tr.swaps[i].inputAmount, hops[i])}} : TRUE
          IN  amount[Len(tr.swaps)] :
       hops \in {IF tr.tradeType = TradeType.EXACT_OUTPUT THEN reverseHops(hopsList) ELSE hopsList},
       output \in {outputAmount(tr)}} : TRUE

\* CurrencyAmount.subtract refuses (CURRENCY) an amount of another
\* currency; the difference and the quotient are CurrencyAmounts, built with
\* fromFractionalAmount
getPriceImpact(tr, hopsList) ==
  CHOOSE result \in
    {IF Failed(marginalOutputAmount) THEN marginalOutputAmount
     ELSE IF ~equals(marginalOutputAmount.currency, output.currency) THEN Failure("CURRENCY")
     ELSE CHOOSE percent \in
            {IF Failed(subtracted) THEN subtracted
             ELSE CHOOSE quotient \in
                    {IF Failed(priceImpact) THEN priceImpact
                     ELSE Fraction(priceImpact.numerator, priceImpact.denominator) :
                       priceImpact \in {fromFractionalAmount(
                                          marginalOutputAmount.currency,
                                          multiply(subtracted.numerator, marginalOutputAmount.denominator),
                                          multiply(subtracted.denominator, marginalOutputAmount.numerator))}} : TRUE :
               subtracted \in
                 {CHOOSE amount \in
                    {fromFractionalAmount(marginalOutputAmount.currency, difference.numerator,
                                          difference.denominator) :
                       difference \in {fractionSubtract(marginalOutputAmount,
                                                        Fraction(output.quotient, ONE))}} : TRUE}} : TRUE :
       marginalOutputAmount \in {getTradeMaringalOutputAmount(tr, hopsList)},
       output \in {outputAmount(tr)}} : TRUE

\* the share a tier keeps taken as sqrtGamma / 1e5, not squared
gammaUnsquared(sqrtGamma) == Fraction(BigInt(sqrtGamma), BigInt(100000))

\* new Percent(sqrtGamma * sqrtGamma, 1e10): the product of two numbers up
\* to 1e5 is a whole number that a JS number holds exactly
gamma(sqrtGamma) == Fraction(multiply(BigInt(sqrtGamma), BigInt(sqrtGamma)), multiply(BigInt(100000), BigInt(100000)))

getRealizedFee(tr, hopsList) ==
  CHOOSE result \in
    {IF ~(Len(hops) = Len(tr.swaps)) THEN Failure("INVALID_HOPS_LIST_LENGTH")
     ELSE LET overallGamma[i \in 0..Len(tr.swaps)] ==
                IF i = 0 THEN Fraction(ZERO, ONE)
                ELSE CHOOSE sum \in
                       {IF Failed(before) THEN before
                        ELSE IF ~(Len(hops[i]) = Len(tr.swaps[i].route.pools)) THEN Failure("INVALID_HOPS_LENGTH")
                        ELSE LET pools == tr.swaps[i].route.pools
                                 routeGamma[j \in 0..Len(pools)] ==
                                   IF j = 0 THEN Fraction(ONE, ONE)
                                   ELSE CHOOSE product \in
                                          {IF Failed(kept) THEN kept
                                           ELSE IF ~(Len(hops[i][j].tierAmountsIn) <= Len(pools[j].tiers))
                                           THEN Failure("INVALID_AMOUNTS_IN_LENGTH")
                                           ELSE LET poolGamma[tierId \in 0..Len(percents)] ==
                                                      IF tierId = 0 THEN Fraction(ZERO, ONE)
                                                      ELSE fractionAdd(
                                                             poolGamma[tierId - 1],
                                                             fractionMultiply(gamma(pools[j].tiers[tierId].sqrtGamma),
                                                                              percents[tierId]))
                                                IN  CHOOSE next \in
                                                      {fractionMultiply(kept, ofPool) :
                                                         ofPool \in {poolGamma[Len(percents)]}} : TRUE :
                                             kept \in {routeGamma[j - 1]},
                                             percents \in {getInputAmountDistribution(hops[i][j])}} : TRUE
                             IN  CHOOSE next \in
                                   {IF Failed(ofRoute) THEN ofRoute
                                    ELSE IF Failed(total) THEN total
                                    ELSE CHOOSE added \in
                                           {IF Failed(swapPercent) THEN swapPercent
                                            ELSE fractionAdd(before,
                                                             fractionMultiply(ofRoute,
                                                                              Fraction(swapPercent.numerator,
                                                                                       swapPercent.denominator))) :
                                              swapPercent \in
                                                {fromFractionalAmount(
                                                   tr.swaps[i].inputAmount.currency,
                                                   multiply(tr.swaps[i].inputAmount.quotient, ONE),
                                                   multiply(ONE, total.quotient))}} : TRUE :
                                      ofRoute \in {routeGamma[Len(pools)]}} : TRUE :
                          before \in {overallGamma[i - 1]}} : TRUE
          IN  CHOOSE fee \in
                {IF Failed(last) THEN last
                 ELSE IF Failed(total) THEN total
                 ELSE CHOOSE both \in
                        {CHOOSE rounded \in
                           {IF Failed(product) THEN product
                            ELSE CHOOSE value \in
                                   {IF ~lessThanOrEqual(quotient, MaxUint256) THEN Failure("AMOUNT")
                                    ELSE [percent |-> percent,
                                          amount  |-> [currency |-> total.currency, quotient |-> quotient]] :
                                      quotient \in {divide(product.numerator, product.denominator)}} : TRUE :
                              product \in {fromFractionalAmount(total.currency,
                                                                multiply(total.quotient, percent.numerator),
                                                                multiply(ONE, percent.denominator))}} : TRUE :
                           percent \in {fractionSubtract(Fraction(ONE, ONE), last)}} : TRUE :
                   last \in {overallGamma[Len(tr.swaps)]}} : TRUE :
       hops \in {IF tr.tradeType = TradeType.EXACT_OUTPUT THEN reverseHops(hopsList) ELSE hopsList},
       total \in {inputAmount(tr)}} : TRUE

(***************************************************************************)
(* utils/swap under test: trades of one and two swaps over the routes of   *)
(* the tests, with the hops of the tests and hops that are empty, all      *)
(* zero, negative, too many or too few; each function is called once on    *)
(* the trade constructed.                                                  *)
(***************************************************************************)
InitSwap ==
  /\ tick = 0
  /\ sqrtPriceX72 = Pending
  /\ sqrtPriceIn = Pending
  /\ tickOut = Pending
  /\ pm = NoCall
  /\ newArgs \in
       LET T(a, b, p, g) == NewTier([tokenA |-> Token(1, a), tokenB |-> Token(1, b), liquidity |-> ONE,
                                     sqrtPriceX72 |-> p, sqrtGamma |-> g,
                                     nextTickBelow |-> MIN_TICK, nextTickAbove |-> MAX_TICK])
           pool01 == Pool(Token(1, 0), Token(1, 1), 1,
                          <<T(0, 1, multiply(Q72, TWO), 100000), T(0, 1, Q72, 99850)>>)
           pool12 == Pool(Token(1, 1), Token(1, 2), 1,
                          <<T(1, 2, divide(Q72, TWO), 100000), T(1, 2, Q72, 99850)>>)
           pool02 == Pool(Token(1, 0), Token(1, 2), 1,
                          <<T(0, 2, Q72, 100000), T(0, 2, multiply(Q72, TWO), 99850)>>)
           native == [isNative |-> TRUE, chainId |-> 1]
           amount(currency, n) == [currency |-> currency, quotient |-> BigInt(n)]
           route012 == NewRoute(<<pool01, pool12>>, <<ALL_TIERS, ALL_TIERS>>, Token(1, 0), Token(1, 2))
           route02  == NewRoute(<<pool02>>, <<ALL_TIERS>>, Token(1, 0), Token(1, 2))
           routeN2  == NewRoute(<<pool02>>, <<ALL_TIERS>>, native, Token(1, 2))
           route210 == NewRoute(<<pool12, pool01>>, <<ALL_TIERS, ALL_TIERS>>, Token(1, 2), Token(1, 0))
           swap012  == [route |-> route012, inputAmount |-> amount(Token(1, 0), 100000),
                        outputAmount |-> amount(Token(1, 2), 100000)]
           swap02   == [route |-> route02, inputAmount |-> amount(Token(1, 0), 50000),
                        outputAmount |-> amount(Token(1, 2), 50000)]
           swapN2   == [route |-> routeN2, inputAmount |-> amount(native, 50000),
                        outputAmount |-> amount(Token(1, 2), 50000)]
           swap210  == [route |-> route210, inputAmount |-> amount(Token(1, 2), 100),
                        outputAmount |-> amount(Token(1, 0), 400)]
           swapZero == [route |-> route02, inputAmount |-> amount(Token(1, 0), 0),
                        outputAmount |-> amount(Token(1, 2), 0)]
           swapBack == [route |-> route02, inputAmount |-> amount(Token(1, 2), 50000),
                        outputAmount |-> amount(Token(1, 2), 50000)]
           hop(amounts) == [tierAmountsIn |-> amounts]
           one == {<<hop(a)>> : a \in {<<30000, 20000>>, <<1, 0>>, <<0, 1>>, <<0, 0>>, <<>>,
                                         <<1>>, <<1, 1, 1>>, <<-1, 2>>, <<1, -1>>}}
           two == {<<hop(a), hop(b)>> : a \in {<<75000, 25000>>, <<0, 0>>}, b \in {<<1, 0>>, <<0, 1>>}}
           few == {<<hop(a)>> : a \in {<<30000, 20000>>, <<0, 1>>}}
       IN  {[routes |-> rs, tradeType |-> t, hopsList |-> hs] :
              rs \in {<<swap012>>, <<swap02>>, <<swap210>>, <<swapZero>>, <<swapN2>>,
                      <<swap012, swap02>>, <<swap02, swap012>>, <<swap012, swapN2>>,
                      <<swap012, swapZero>>, <<swap012, swapBack>>, <<swap02, swap02>>},
              t \in {TradeType.EXACT_INPUT, TradeType.EXACT_OUTPUT},
              hs \in {<<>>} \cup {<<h>> : h \in one \cup two}
                           \cup {<<h[1], h[2]>> : h \in (two \X few) \cup (few \X two)}}
  /\ position = Null
  /\ ret = Pending
  /\ route = Null
  /\ trade = Pending
  /\ tier = Null

\* getInputAmountDistribution on a hop of the hops at hand
CallGetInputAmountDistribution ==
  /\ ret = Pending
  /\ \E i \in DOMAIN newArgs.hopsList :
       \E j \in DOMAIN newArgs.hopsList[i] :
         ret' = [op |-> "getInputAmountDistribution", hop |-> newArgs.hopsList[i][j],
                 value |-> getInputAmountDistribution(newArgs.hopsList[i][j])]
  /\ UNCHANGED <<tickVars, pm, newArgs, position, route, trade, tier>>

\* the trade as a call leaves it that reads its inputAmount (when input) or
\* its outputAmount, if the call gets as far as reading it
TradeAfter(input, reached) ==
  IF ~reached THEN trade
  ELSE IF input
  THEN (IF Failed(inputAmount(trade)) THEN trade ELSE [trade EXCEPT !._inputAmount = inputAmount(trade)])
  ELSE (IF Failed(outputAmount(trade)) THEN trade ELSE [trade EXCEPT !._outputAmount = outputAmount(trade)])

\* trade.inputAmount is read once the first route has its price
CallGetTradeMarginalPrice ==
  /\ trade # Pending
  /\ ~Failed(trade)
  /\ ret = Pending
  /\ ret' = [op |-> "getTradeMarginalPrice", value |-> getTradeMarginalPrice(trade, newArgs.hopsList)]
  /\ trade' = TradeAfter(TRUE,
                /\ Len(newArgs.hopsList) = Len(trade.swaps)
                /\ ~Failed(getRouteMarginalPrice(
                             trade.swaps[1].route,
                             (IF trade.tradeType = TradeType.EXACT_OUTPUT THEN reverseHops(newArgs.hopsList)
                              ELSE newArgs.hopsList)[1])))
  /\ UNCHANGED <<tickVars, pm, newArgs, position, route, tier>>

\* trade.outputAmount is read once the number of hop lists is found right
CallGetTradeMaringalOutputAmount ==
  /\ trade # Pending
  /\ ~Failed(trade)
  /\ ret = Pending
  /\ ret' = [op |-> "getTradeMaringalOutputAmount",
             value |-> getTradeMaringalOutputAmount(trade, newArgs.hopsList)]
  /\ trade' = TradeAfter(FALSE, Len(newArgs.hopsList) = Len(trade.swaps))
  /\ UNCHANGED <<tickVars, pm, newArgs, position, route, tier>>

CallGetPriceImpact ==
  /\ trade # Pending
  /\ ~Failed(trade)
  /\ ret = Pending
  /\ ret' = [op |-> "getPriceImpact", value |-> getPriceImpact(trade, newArgs.hopsList)]
  /\ trade' = TradeAfter(FALSE, Len(newArgs.hopsList) = Len(trade.swaps))
  /\ UNCHANGED <<tickVars, pm, newArgs, position, route, tier>>

\* trade.inputAmount is read once the hops of the first route have been
\* gone through
CallGetRealizedFee ==
  /\ trade # Pending
  /\ ~Failed(trade)
  /\ ret = Pending
  /\ ret' = [op |-> "getRealizedFee", value |-> getRealizedFee(trade, newArgs.hopsList)]
  /\ trade' = TradeAfter(TRUE,
                /\ Len(newArgs.hopsList) = Len(trade.swaps)
                /\ LET hops  == (IF trade.tradeType = TradeType.EXACT_OUTPUT THEN reverseHops(newArgs.hopsList)
                                 ELSE newArgs.hopsList)[1]
                       pools == trade.swaps[1].route.pools
                   IN  /\ Len(hops) = Len(pools)
                       /\ \A j \in DOMAIN pools : Len(hops[j].tierAmountsIn) <= Len(pools[j].tiers))
  /\ UNCHANGED <<tickVars, pm, newArgs, position, route, tier>>

SpecSwap ==
  InitSwap /\ [][\/ CallNewTrade
                 \/ CallGetInputAmountDistribution
                 \/ CallGetTradeMarginalPrice
                 \/ CallGetTradeMaringalOutputAmount
                 \/ CallGetPriceImpact
                 \/ CallGetRealizedFee]_vars

(***************************************************************************)
(* Tier under test: the tiers of the tests at the prices of the first, the *)
(* middle and the last tick and next to them, between next ticks that the  *)
(* price's tick meets or not; then its getters, read in any order and any  *)
(* number of times.                                                        *)
(***************************************************************************)
TierWindow == 1

InitTier ==
  /\ tick = 0
  /\ sqrtPriceX72 = Pending
  /\ sqrtPriceIn = Pending
  /\ tickOut = Pending
  /\ pm = NoCall
  /\ newArgs \in
       {[tokenA |-> Token(1, a), tokenB |-> Token(1, 1), liquidity |-> ONE,
         sqrtPriceX72 |-> add(p, BigInt(d)), sqrtGamma |-> g, nextTickBelow |-> b, nextTickAbove |-> c] :
          a \in {0, 1, 2}, p \in {tickToSqrtPriceX72(t) : t \in {MIN_TICK, 0, MAX_TICK}},
          d \in (-TierWindow)..TierWindow, g \in {0, 99850, 100001},
          b \in {MIN_TICK, 0}, c \in {-1, 0, 1, MAX_TICK}}
  /\ position = Null
  /\ ret = Pending
  /\ route = Null
  /\ trade = Null
  /\ tier = Pending

CallNewTier ==
  /\ tier = Pending
  /\ tier' = NewTier(newArgs)
  /\ UNCHANGED <<tickVars, pm, posVars, route, trade>>

\* tier.token0Price, tier.token1Price and tier.tickCurrent: each returns its
\* cache field when that is set, and sets it otherwise; a getter that throws
\* sets nothing
GetTier ==
  /\ tier # Null
  /\ tier # Pending
  /\ ~Failed(tier)
  /\ \/ /\ ret' = [op |-> "token0Price", cached |-> tier._token0Price # Null,
                    value |-> IF tier._token0Price # Null THEN tier._token0Price ELSE token0Price(tier)]
        /\ tier' = [tier EXCEPT !._token0Price = ret'.value]
     \/ /\ ret' = [op |-> "token1Price", cached |-> tier._token1Price # Null,
                    value |-> IF tier._token1Price # Null THEN tier._token1Price ELSE token1Price(tier)]
        /\ tier' = [tier EXCEPT !._token1Price = ret'.value]
     \/ /\ ret' = [op |-> "tickCurrent", cached |-> tier._tickCurrent # Null,
                    value |-> IF tier._tickCurrent # Null THEN tier._tickCurrent ELSE tickCurrent(tier)]
        /\ tier' = IF Failed(ret'.value) THEN tier ELSE [tier EXCEPT !._tickCurrent = ret'.value]
  /\ UNCHANGED <<tickVars, pm, newArgs, position, route, trade>>

SpecTier == InitTier /\ [][CallNewTier \/ GetTier]_vars

(***************************************************************************)
(* The memoized getters under test: a Position, a Tier or a Trade is       *)
(* constructed and its getters are read in any order and any number of     *)
(* times; a read records whether it found its cache set.                   *)
(***************************************************************************)
InitGetters ==
  /\ tick = 0
  /\ sqrtPriceX72 = Pending
  /\ sqrtPriceIn = Pending
  /\ tickOut = Pending
  /\ pm = NoCall
  /\ ret = Pending
  /\ route = Null
  /\ \/ /\ newArgs \in
             {[pool |-> Pool(Token(1, 0), Token(1, 1), 1, <<Tier(Q72)>>), tierId |-> 0, tickLower |-> r[1],
               tickUpper |-> r[2], liquidityD8 |-> E18, limitOrderType |-> o[1], settled |-> o[2]] :
                r \in {<<-1, 2>>, <<MIN_TICK, -1>>},
                o \in {<<<<>>, <<>>>>, <<<<ZeroForOne>>, <<>>>>, <<<<OneForZero>>, <<TRUE>>>>}}
        /\ position = Pending /\ tier = Null /\ trade = Null
     \/ /\ newArgs \in
             {[tokenA |-> Token(1, 0), tokenB |-> Token(1, 1), liquidity |-> ONE, sqrtPriceX72 |-> p,
               sqrtGamma |-> 99850, nextTickBelow |-> MIN_TICK, nextTickAbove |-> c] :
                p \in {Q72, add(Q72, ONE), subtract(MIN_SQRT_PRICE, ONE), MAX_SQRT_PRICE},
                c \in {0, MAX_TICK}}
        /\ position = Null /\ tier = Pending /\ trade = Null
     \/ /\ newArgs \in
             LET pool(a, b) == Pool(Token(1, a), Token(1, b), 1, <<Tier(Q72), Tier(Q72)>>)
                 route012 == NewRoute(<<pool(0, 1), pool(1, 2)>>, <<3, 3>>, Token(1, 0), Token(1, 2))
                 route02  == NewRoute(<<pool(0, 2)>>, <<3>>, Token(1, 0), Token(1, 2))
                 swap(r, a, x, b, y) == [route |-> r, inputAmount |-> [currency |-> Token(1, a), quotient |-> BigInt(x)],
                                         outputAmount |-> [currency |-> Token(1, b), quotient |-> BigInt(y)]]
             IN  {[routes |-> rs, tradeType |-> TradeType.EXACT_INPUT] :
                    rs \in {<<swap(route012, 0, 1000, 2, 997)>>,
                            <<swap(route012, 0, 1000, 2, 997), swap(route02, 0, 3, 2, 5)>>,
                            <<swap(route02, 0, 0, 2, 0)>>,
                            <<swap(route012, 0, 1000, 2, 997), swap(route02, 0, 3, 1, 5)>>,
                            <<swap(route012, 0, 1000, 2, 997), swap(route02, 1, 3, 2, 5)>>}}
        /\ position = Null /\ tier = Null /\ trade = Pending

\* position.amount0, amount1, mintAmounts, settleAmounts and priceToSettle
GetPosition ==
  /\ position # Null
  /\ position # Pending
  /\ ~Failed(position)
  /\ \/ /\ position' = computeTokenAmounts(position)
        /\ ret' = [op |-> "amount0", cached |-> position._token0Amount # Null /\ position._token1Amount # Null,
                   value |-> position'._token0Amount]
     \/ /\ position' = computeTokenAmounts(position)
        /\ ret' = [op |-> "amount1", cached |-> position._token0Amount # Null /\ position._token1Amount # Null,
                   value |-> position'._token1Amount]
     \/ /\ position' = mintAmounts(position)
        /\ ret' = [op |-> "mintAmounts", cached |-> position._mintAmounts # Null,
                   value |-> position'._mintAmounts]
     \/ /\ position' = settleAmounts(position)
        /\ ret' = [op |-> "settleAmounts", cached |-> position._settleAmounts # Null,
                   value |-> position'._settleAmounts]
     \/ /\ position' = IF Failed(priceToSettle(position)) THEN position ELSE priceToSettle(position)
        /\ ret' = [op |-> "priceToSettle", cached |-> position._priceToSettle # Null,
                   value |-> IF Failed(priceToSettle(position)) THEN priceToSettle(position)
                             ELSE position'._priceToSettle]
  /\ UNCHANGED <<tickVars, pm, newArgs, route, trade, tier>>

\* trade.inputAmount, outputAmount and executionPrice: a getter that throws
\* leaves its cache unset
GetTrade ==
  /\ trade # Null
  /\ trade # Pending
  /\ ~Failed(trade)
  /\ \/ /\ ret' = [op |-> "inputAmount", cached |-> trade._inputAmount # Null, value |-> inputAmount(trade)]
        /\ trade' = TradeAfter(TRUE, TRUE)
     \/ /\ ret' = [op |-> "outputAmount", cached |-> trade._outputAmount # Null, value |-> outputAmount(trade)]
        /\ trade' = TradeAfter(FALSE, TRUE)
     \/ /\ ret' = [op |-> "executionPrice", cached |-> trade._executionPrice # Null,
                   value |-> executionPrice(trade)]
        /\ trade' = IF trade._executionPrice # Null \/ Failed(inputAmount(trade)) THEN trade
                    ELSE IF Failed(outputAmount(trade)) THEN TradeAfter(TRUE, TRUE)
                    ELSE [trade EXCEPT !._inputAmount = inputAmount(trade),
                                       !._outputAmount = outputAmount(trade),
                                       !._executionPrice = ret'.value]
  /\ UNCHANGED <<tickVars, pm, newArgs, position, route, tier>>

SpecGetters ==
  InitGetters /\ [][\/ CallNewPosition
                    \/ CallNewTier
                    \/ CallNewTrade
                    \/ GetPosition
                    \/ GetTier
                    \/ GetTrade]_vars

(***************************************************************************)
(* Properties of TickMath.                                                 *)
(***************************************************************************)
\* C1: for every tick in [MIN_TICK, MAX_TICK],
\* sqrtPriceX72ToTick(tickToSqrtPriceX72(tick)) returns tick.
TickRoundTrip ==
  (tick >= MIN_TICK /\ tick <= MAX_TICK /\ tickOut # Pending /\ sqrtPriceIn = sqrtPriceX72)
    => tickOut = Number(tick)

\* the round trip has been made on a tick at which tickLow's offset changes
TickRoundTripWitness ==
  tick \in {-676363, -476363} /\ tickOut # Pending /\ sqrtPriceIn = sqrtPriceX72

\* C2: tickToSqrtPriceX72 returns exactly 2^72 for tick 0, exactly 65539 for
\* MIN_TICK (-776363) and exactly 340271175397327323250730767849398346765
\* for MAX_TICK (776363).
TickExactValues ==
  sqrtPriceX72 # Pending =>
    /\ tick = 0 => sqrtPriceX72 = leftShift(ONE, 72)
    /\ tick = -776363 => sqrtPriceX72 = BigInt(65539)
    /\ tick = 776363 =>
         sqrtPriceX72 = Dec(<<340, 271, 175, 397, 327, 323, 250, 730, 767, 849, 398, 346, 765>>)

\* tickToSqrtPriceX72 has returned for the largest tick
TickExactValuesWitness == tick = MAX_TICK /\ sqrtPriceX72 # Pending /\ ~Failed(sqrtPriceX72)
(***************************************************************************)
(* Properties of PoolMath.  A quotient is stated by the two products that  *)
(* bracket the dividend, never by a division.                              *)
(***************************************************************************)
\* C3: calcAmount0Delta and calcAmount1Delta, for L >= 0 and positive prices,
\* return an input amount rounded up and an output amount negative and
\* rounded toward zero: amount0 is minus the floor of
\* L*|sqrtP0-sqrtP1|*2^72/(sqrtP0*sqrtP1) when sqrtP1 > sqrtP0 and its ceiling
\* otherwise; amount1 is minus the floor of L*|sqrtP1-sqrtP0|/2^72 when
\* sqrtP1 < sqrtP0 and its ceiling otherwise.
CalcAmountDeltaRounding ==
  LET isFloor(q, n, d) ==
        /\ greaterThanOrEqual(q, ZERO)
        /\ lessThanOrEqual(multiply(q, d), n)
        /\ lessThan(n, multiply(add(q, ONE), d))
      isCeil(q, n, d) ==
        /\ greaterThanOrEqual(multiply(q, d), n)
        /\ lessThan(multiply(subtract(q, ONE), d), n)
      gap  == IF lessThan(pm.sqrtP0, pm.sqrtP1) THEN subtract(pm.sqrtP1, pm.sqrtP0)
              ELSE subtract(pm.sqrtP0, pm.sqrtP1)
      num0 == multiply(multiply(pm.liquidity, gap), leftShift(ONE, 72))
      den0 == multiply(pm.sqrtP0, pm.sqrtP1)
      num1 == multiply(pm.liquidity, gap)
      den1 == leftShift(ONE, 72)
  IN  /\ (pm.op = "calcAmount0Delta" /\ Returned(pm)) =>
           IF greaterThan(pm.sqrtP1, pm.sqrtP0)
           THEN lessThanOrEqual(pm.ret, ZERO) /\ isFloor(unaryMinus(pm.ret), num0, den0)
           ELSE isCeil(pm.ret, num0, den0)
      /\ (pm.op = "calcAmount1Delta" /\ Returned(pm)) =>
           IF lessThan(pm.sqrtP1, pm.sqrtP0)
           THEN lessThanOrEqual(pm.ret, ZERO) /\ isFloor(unaryMinus(pm.ret), num1, den1)
           ELSE isCeil(pm.ret, num1, den1)

\* calcAmount0Delta has returned an output (price up) whose magnitude is not
\* a whole number, so that the rounding direction shows
CalcAmountDeltaRoundingWitness ==
  /\ pm.op = "calcAmount0Delta" /\ Returned(pm)
  /\ lessThan(pm.ret, ZERO)
  /\ multiply(unaryMinus(pm.ret), multiply(pm.sqrtP0, pm.sqrtP1))
       # multiply(multiply(pm.liquidity, subtract(pm.sqrtP1, pm.sqrtP0)), leftShift(ONE, 72))

\* C4: for sqrtPLower < sqrtPUpper, any current price and any scaled
\* liquidity L >= 0, the amounts of amountsForLiquidityDeltaD8 for +L (mint)
\* minus its amounts for -L (burn) at the same prices are 0 or 1 for token0
\* and 0 or 1 for token1.
MintMinusBurnZeroOrOne ==
  (/\ pm.op = "amountsForLiquidityDeltaD8" /\ Returned(pm) /\ ~Failed(pm.ret)
   /\ greaterThanOrEqual(pm.liquidityDeltaD8, ZERO)) =>
    LET burn == amountsForLiquidityDeltaD8(pm.sqrtPCurrent, pm.sqrtPLower, pm.sqrtPUpper,
                                           unaryMinus(pm.liquidityDeltaD8))
    IN  /\ subtract(pm.ret.amount0, burn.amount0) \in {ZERO, ONE}
        /\ subtract(pm.ret.amount1, burn.amount1) \in {ZERO, ONE}

\* a mint inside the range whose token0 amount is one more than the burn's
MintMinusBurnZeroOrOneWitness ==
  /\ pm.op = "amountsForLiquidityDeltaD8" /\ Returned(pm) /\ ~Failed(pm.ret)
  /\ greaterThan(pm.liquidityDeltaD8, ZERO)
  /\ lessThan(pm.sqrtPLower, pm.sqrtPCurrent) /\ lessThan(pm.sqrtPCurrent, pm.sqrtPUpper)
  /\ pm.ret.amount0 = add(amountsForLiquidityDeltaD8(pm.sqrtPCurrent, pm.sqrtPLower, pm.sqrtPUpper,
                                                     unaryMinus(pm.liquidityDeltaD8)).amount0, ONE)

\* C8: amountsForLiquidityDeltaD8 returns amount0 >= 0 and amount1 >= 0 for
\* every sqrtPLower < sqrtPUpper, every current price (inside, below or above
\* the range) and every liquidity delta, positive, zero or negative.
AmountsNonNegative ==
  (pm.op = "amountsForLiquidityDeltaD8" /\ Returned(pm) /\ ~Failed(pm.ret)) =>
    /\ greaterThanOrEqual(pm.ret.amount0, ZERO)
    /\ greaterThanOrEqual(pm.ret.amount1, ZERO)

\* a burn (negative delta) with the current price above the range has paid
\* out token1
AmountsNonNegativeWitness ==
  /\ pm.op = "amountsForLiquidityDeltaD8" /\ Returned(pm) /\ ~Failed(pm.ret)
  /\ lessThan(pm.liquidityDeltaD8, ZERO)
  /\ greaterThan(pm.sqrtPCurrent, pm.sqrtPUpper)
  /\ greaterThan(pm.ret.amount1, ZERO)

\* C9: maxOutputLiquidityForAmounts with sqrtPLower < sqrtPUpper returns
\* floor(amount0*sqrtPLower*sqrtPUpper/((sqrtPUpper-sqrtPLower)*2^72)) when
\* sqrtPCurrent <= sqrtPLower, floor(amount1*2^72/(sqrtPUpper-sqrtPLower))
\* when sqrtPCurrent >= sqrtPUpper, and otherwise the smaller of the floored
\* token0 bound and the floored token1 bound taken against sqrtPCurrent;
\* the D8 variant returns that value floor-divided by 256.
MaxOutputLiquidityRegimes ==
  LET isFloor(q, n, d) ==
        /\ greaterThanOrEqual(q, ZERO)
        /\ lessThanOrEqual(multiply(q, d), n)
        /\ lessThan(n, multiply(add(q, ONE), d))
      q72  == leftShift(ONE, 72)
      numL == multiply(pm.amount0, multiply(pm.sqrtPLower, pm.sqrtPUpper))
      denL == multiply(subtract(pm.sqrtPUpper, pm.sqrtPLower), q72)
      numU == multiply(pm.amount1, q72)
      denU == subtract(pm.sqrtPUpper, pm.sqrtPLower)
      num0 == multiply(pm.amount0, multiply(pm.sqrtPCurrent, pm.sqrtPUpper))
      den0 == multiply(subtract(pm.sqrtPUpper, pm.sqrtPCurrent), q72)
      num1 == multiply(pm.amount1, q72)
      den1 == subtract(pm.sqrtPCurrent, pm.sqrtPLower)
  IN  /\ (/\ pm.op = "maxOutputLiquidityForAmounts" /\ Returned(pm)
          /\ lessThan(pm.sqrtPLower, pm.sqrtPUpper)) =>
           IF lessThanOrEqual(pm.sqrtPCurrent, pm.sqrtPLower) THEN isFloor(pm.ret, numL, denL)
           ELSE IF greaterThanOrEqual(pm.sqrtPCurrent, pm.sqrtPUpper) THEN isFloor(pm.ret, numU, denU)
           ELSE \/ isFloor(pm.ret, num0, den0) /\ lessThanOrEqual(multiply(pm.ret, den1), num1)
                \/ isFloor(pm.ret, num1, den1) /\ lessThanOrEqual(multiply(pm.ret, den0), num0)
      /\ (/\ pm.op = "maxOutputLiquidityD8ForAmounts" /\ Returned(pm)
          /\ lessThan(pm.sqrtPLower, pm.sqrtPUpper)) =>
           isFloor(pm.ret,
                   maxOutputLiquidityForAmounts(pm.sqrtPCurrent, pm.sqrtPLower, pm.sqrtPUpper,
                                                pm.amount0, pm.amount1),
                   BigInt(256))

\* inside the range, with both budgets positive, the token0 bound was the
\* smaller one and was returned
MaxOutputLiquidityRegimesWitness ==
  /\ pm.op = "maxOutputLiquidityForAmounts" /\ Returned(pm) /\ ~Failed(pm.ret)
  /\ lessThan(pm.sqrtPLower, pm.sqrtPCurrent) /\ lessThan(pm.sqrtPCurrent, pm.sqrtPUpper)
  /\ greaterThan(pm.ret, ZERO)
  /\ lessThan(multiply(pm.ret, subtract(pm.sqrtPCurrent, pm.sqrtPLower)),
              multiply(subtract(pm.amount1, ONE), leftShift(ONE, 72)))

(***************************************************************************)
(* Properties of Position.                                                 *)
(***************************************************************************)
\* C5: for every position and every tolerance >= 0, mintAmountsWithSlippage
\* returns amount0 >= mintAmounts.amount0 and amount1 >= mintAmounts.amount1.
MintSlippageAtLeastMintAmounts ==
  (/\ "op" \in DOMAIN ret /\ ret.op = "mintAmountsWithSlippage" /\ ~Failed(ret.value)
   /\ greaterThanOrEqual(ret.slippageTolerance.numerator, ZERO))
    => /\ greaterThanOrEqual(ret.value.amount0, position._mintAmounts.amount0)
       /\ greaterThanOrEqual(ret.value.amount1, position._mintAmounts.amount1)

\* C6: for every position and every tolerance in [0, 100%],
\* burnAmountsWithSlippage returns amount0 <= the position's holding amount0
\* and amount1 <= its holding amount1 (Position.amount0, Position.amount1).
BurnSlippageAtMostHolding ==
  (/\ "op" \in DOMAIN ret /\ ret.op = "burnAmountsWithSlippage" /\ ~Failed(ret.value)
   /\ greaterThanOrEqual(ret.slippageTolerance.numerator, ZERO)
   /\ lessThanOrEqual(ret.slippageTolerance.numerator, ret.slippageTolerance.denominator))
    => LET held == computeTokenAmounts(position)
       IN  /\ lessThanOrEqual(ret.value.amount0, held._token0Amount)
           /\ lessThanOrEqual(ret.value.amount1, held._token1Amount)

\* a burn under a tolerance of 0.5 bps gives less than is held, and not nothing
BurnSlippageAtMostHoldingWitness ==
  /\ "op" \in DOMAIN ret /\ ret.op = "burnAmountsWithSlippage" /\ ~Failed(ret.value)
  /\ ret.slippageTolerance = Fraction(BigInt(5), BigInt(100000))
  /\ LET held == computeTokenAmounts(position)
     IN  /\ lessThan(ZERO, ret.value.amount0) /\ lessThan(ret.value.amount0, held._token0Amount)
         /\ lessThan(ZERO, ret.value.amount1) /\ lessThan(ret.value.amount1, held._token1Amount)

\* C7: for an unsettled position, when sqrtPriceSlippageLower <=
\* sqrtPrice(tickLower) and sqrtPriceSlippageUpper >= sqrtPrice(tickUpper),
\* burnAmountsWithSlippage returns amount0 = 0 and amount1 = 0.
BurnZeroWhenBandCoversRange ==
  (/\ "op" \in DOMAIN ret /\ ret.op = "burnAmountsWithSlippage" /\ ~Failed(ret.value)
   /\ ~position.settled
   /\ LET band == sqrtPriceAfterSlippage(poolTier(position), ret.slippageTolerance)
      IN  /\ lessThanOrEqual(band.sqrtPriceSlippageLower, sqrtPriceLower(position))
          /\ greaterThanOrEqual(band.sqrtPriceSlippageUpper, sqrtPriceUpper(position)))
    => ret.value.amount0 = ZERO /\ ret.value.amount1 = ZERO

\* a position that holds both tokens, burnt under a band wider than its range
BurnZeroWhenBandCoversRangeWitness ==
  /\ "op" \in DOMAIN ret /\ ret.op = "burnAmountsWithSlippage" /\ ~Failed(ret.value)
  /\ ~position.settled
  /\ LET band == sqrtPriceAfterSlippage(poolTier(position), ret.slippageTolerance)
         held == computeTokenAmounts(position)
     IN  /\ lessThan(band.sqrtPriceSlippageLower, sqrtPriceLower(position))
         /\ greaterThan(band.sqrtPriceSlippageUpper, sqrtPriceUpper(position))
         /\ lessThan(ZERO, held._token0Amount)
         /\ lessThan(ZERO, held._token1Amount)
  /\ ret.value = [amount0 |-> ZERO, amount1 |-> ZERO]

\* C10: constructing a Position fails when tickLower or tickUpper is not a
\* multiple of the pool's tickSpacing.
MisalignedTicksRefused ==
  (/\ position # Pending
   /\ "pool" \in DOMAIN newArgs
   /\ \/ newArgs.tickLower % newArgs.pool.tickSpacing # 0
      \/ newArgs.tickUpper % newArgs.pool.tickSpacing # 0)
    => Failed(position)

\* C11: every constructed Position has MIN_TICK <= tickLower < tickUpper <=
\* MAX_TICK, a tierId that is an index into pool.tiers (0 <= tierId <
\* pool.tiers.length), and settled only with limit order type ZeroForOne or
\* OneForZero; arguments breaking one of these are refused.
ConstructedPositionValid ==
  (position # Pending /\ position # Null) =>
    LET valid(a, type, isSettled) ==
          /\ MIN_TICK <= a.tickLower
          /\ a.tickLower < a.tickUpper
          /\ a.tickUpper <= MAX_TICK
          /\ 0 <= a.tierId
          /\ a.tierId < Len(a.pool.tiers)
          /\ isSettled => type \in {ZeroForOne, OneForZero}
    IN  /\ ~Failed(position) => valid(position, position.limitOrderType, position.settled)
        /\ ~valid(newArgs, IF newArgs.limitOrderType = <<>> THEN NotLimitOrder ELSE newArgs.limitOrderType[1],
                   newArgs.settled = <<TRUE>>)
             => Failed(position)

\* C12 as stated: for a limit-order Position with positive liquidity
\* settleAmounts is single-sided with the other amount positive (ZeroForOne:
\* amount0 = 0 and amount1 > 0; OneForZero: amount1 = 0 and amount0 > 0),
\* and for a position that is not a limit order it has neither amount.
SettleAmountsPositive ==
  ("op" \in DOMAIN ret /\ ret.op = "settleAmounts") =>
    IF isLimitOrder(position) /\ greaterThan(position.liquidityD8, ZERO)
    THEN IF position.limitOrderType = ZeroForOne
         THEN ret.value.amount0 = ZERO /\ greaterThan(ret.value.amount1, ZERO)
         ELSE ret.value.amount1 = ZERO /\ greaterThan(ret.value.amount0, ZERO)
    ELSE isLimitOrder(position) \/ DOMAIN ret.value = {}

\* C12 as it holds: whatever the tier's price, with L = liquidityD8 * 2^8 and
\* the boundary prices Lo < Up, ZeroForOne gives amount0 = 0 and amount1 =
\* floor(L * (Up - Lo) / 2^72), OneForZero gives amount1 = 0 and amount0 =
\* floor(L * (Up - Lo) * 2^72 / (Up * Lo)); the amount is 0 when the
\* liquidity is too small for one unit; a position that is not a limit
\* order has neither amount.
SettleAmountsSingleSided ==
  ("op" \in DOMAIN ret /\ ret.op = "settleAmounts") =>
    IF isLimitOrder(position) /\ greaterThan(position.liquidityD8, ZERO)
    THEN \A Lo \in {tickToSqrtPriceX72(position.tickLower)} :
         \A Up \in {tickToSqrtPriceX72(position.tickUpper)} :
         \A L \in {multiply(position.liquidityD8, BigInt(2^8))} :
           IF position.limitOrderType = ZeroForOne
           THEN /\ ret.value.amount0 = ZERO
                /\ ret.value.amount1 = divide(multiply(L, subtract(Up, Lo)), Q72)
           ELSE /\ ret.value.amount1 = ZERO
                /\ ret.value.amount0 = divide(multiply(multiply(L, subtract(Up, Lo)), Q72), multiply(Up, Lo))
    ELSE isLimitOrder(position) \/ DOMAIN ret.value = {}

\* a ZeroForOne order of liquidityD8 10^18 on a tier at the lowest price,
\* far below the order's range, settles to token1 only
SettleAmountsSingleSidedWitness ==
  /\ "op" \in DOMAIN ret
  /\ ret.op = "settleAmounts"
  /\ position.liquidityD8 = E18
  /\ position.limitOrderType = ZeroForOne
  /\ position.pool.tiers[1].sqrtPriceX72 = MIN_SQRT_PRICE
  /\ ret.value.amount0 = ZERO
  /\ greaterThan(ret.value.amount1, ZERO)

\* C13: for a settled limit-order Position, amount0 and amount1 equal
\* settleAmounts.amount0 and settleAmounts.amount1, the amounts at the upper
\* boundary for ZeroForOne and at the lower boundary for OneForZero,
\* whatever the tier's current sqrt price.
SettledAmountsAreSettleAmounts ==
  (/\ position # Pending
   /\ ~Failed(position)
   /\ position.settled
   /\ position._token0Amount # Null
   /\ position._settleAmounts # Null) =>
    /\ position._token0Amount = position._settleAmounts.amount0
    /\ position._token1Amount = position._settleAmounts.amount1
    /\ position._settleAmounts =
         amountsForLiquidityDeltaD8(
           tickToSqrtPriceX72(IF position.limitOrderType = ZeroForOne THEN position.tickUpper
                              ELSE position.tickLower),
           tickToSqrtPriceX72(position.tickLower), tickToSqrtPriceX72(position.tickUpper),
           unaryMinus(position.liquidityD8))

\* a settled ZeroForOne order whose tier is at the lowest price, where an
\* open position would hold token0 only, holds token1 only
SettledAmountsAreSettleAmountsWitness ==
  /\ position # Pending
  /\ ~Failed(position)
  /\ position.settled
  /\ position.limitOrderType = ZeroForOne
  /\ position.pool.tiers[1].sqrtPriceX72 = MIN_SQRT_PRICE
  /\ position._token0Amount = ZERO
  /\ position._settleAmounts # Null
  /\ position._token1Amount # Null
  /\ greaterThan(position._token1Amount, ZERO)

\* C14 as stated: fromAmounts, fromAmount0 and fromAmount1 on the holding
\* amounts of an unsettled position P whose tier is in its range (lower
\* boundary <= tier price < upper boundary) give a liquidityD8 that does not
\* exceed P.liquidityD8.
FromAmountsAtMostLiquidityInRange ==
  (/\ "op" \in DOMAIN ret
   /\ ret.op \in {"fromAmounts", "fromAmount0", "fromAmount1"}
   /\ ~position.settled
   /\ lessThanOrEqual(tickToSqrtPriceX72(position.tickLower), position.pool.tiers[1].sqrtPriceX72)
   /\ lessThan(position.pool.tiers[1].sqrtPriceX72, tickToSqrtPriceX72(position.tickUpper))) =>
    /\ ~Failed(ret.value)
    /\ lessThanOrEqual(ret.value.liquidityD8, position.liquidityD8)

\* C14 as it holds: on the holding amounts of an unsettled position P,
\* fromAmounts gives a liquidityD8 <= P.liquidityD8 at every tier price,
\* fromAmount0 does when the tier price is below P's upper boundary and
\* fromAmount1 when it is above P's lower boundary; so all three do when the
\* tier price is strictly inside the range.
FromAmountsAtMostLiquidity ==
  (/\ "op" \in DOMAIN ret
   /\ ret.op \in {"fromAmounts", "fromAmount0", "fromAmount1"}
   /\ ~position.settled) =>
    /\ ~Failed(ret.value)
    /\ \/ ret.op = "fromAmount0" /\ ~lessThan(position.pool.tiers[1].sqrtPriceX72,
                                                tickToSqrtPriceX72(position.tickUpper))
       \/ ret.op = "fromAmount1" /\ ~greaterThan(position.pool.tiers[1].sqrtPriceX72,
                                                   tickToSqrtPriceX72(position.tickLower))
       \/ lessThanOrEqual(ret.value.liquidityD8, position.liquidityD8)

\* the position of the tests (ticks [-1, 2] on a tier at price 1, liquidityD8
\* 10^18) made anew from its amount1: less liquidity, and not none
FromAmountsAtMostLiquidityWitness ==
  /\ "op" \in DOMAIN ret
  /\ ret.op = "fromAmount1"
  /\ ~position.settled
  /\ position.tickLower = -1
  /\ position.tickUpper = 2
  /\ position.pool.tiers[1].sqrtPriceX72 = Q72
  /\ position.liquidityD8 = E18
  /\ ~Failed(ret.value)
  /\ lessThan(ret.value.liquidityD8, position.liquidityD8)
  /\ greaterThan(ret.value.liquidityD8, ZERO)

(***************************************************************************)
(* Properties of Route.                                                    *)
(***************************************************************************)
\* C15: every constructed Route has a tokenPath of pools.length + 1 tokens
\* from input.wrapped to output.wrapped in which pool i trades exactly the
\* pair {tokenPath[i], tokenPath[i+1]}; no Route is constructed when the
\* first pool lacks the input token, the last pool lacks the output token
\* or no chain of shared tokens leads from input to output, and the error
\* is 'INPUT', 'OUTPUT' and 'PATH' respectively whenever the constructor
\* gets as far as that check (it checks the pool count, the chain ids,
\* INPUT, OUTPUT, the tier choices and PATH, in this order).
RouteTokenPathIsChain ==
  (route # Null /\ route # Pending) =>
    LET pools == newArgs.pools
        n == Len(pools)
        pair(pool) == {pool.token0, pool.token1}
        sameChain == \A i \in 1..n : pools[i].token0.chainId = pools[1].token0.chainId
        lacksInput == n > 0 /\ wrapped(newArgs.input) \notin pair(pools[1])
        lacksOutput == n > 0 /\ wrapped(newArgs.output) \notin pair(pools[n])
        \* a chain picks one token of each pool to leave it by
        chained == \E leave \in [1..n -> {0, 1}] :
                     LET path == [i \in 0..n |-> IF i = 0 THEN wrapped(newArgs.input)
                                                 ELSE IF leave[i] = 0 THEN pools[i].token0
                                                 ELSE pools[i].token1]
                     IN  /\ \A i \in 1..n : pair(pools[i]) = {path[i - 1], path[i]} /\ path[i - 1] # path[i]
                         /\ path[n] = wrapped(newArgs.output)
        choicesValid == /\ Len(newArgs.tierChoicesList) = n
                        /\ \A i \in 1..n : /\ newArgs.tierChoicesList[i] >= 0
                                             /\ newArgs.tierChoicesList[i] <= ALL_TIERS
                                             /\ newArgs.tierChoicesList[i] % (2^Len(pools[i].tiers)) > 0
    IN  IF Failed(route)
        THEN /\ (n > 0 /\ sameChain /\ lacksInput) => route.err = "INPUT"
             /\ (n > 0 /\ sameChain /\ ~lacksInput /\ lacksOutput) => route.err = "OUTPUT"
             /\ (n > 0 /\ sameChain /\ ~lacksInput /\ ~lacksOutput /\ choicesValid /\ ~chained)
                  => route.err = "PATH"
             /\ route.err \in {"INPUT", "OUTPUT", "PATH"} => (lacksInput \/ lacksOutput \/ ~chained)
        ELSE /\ ~lacksInput /\ ~lacksOutput /\ chained
             /\ Len(route.tokenPath) = Len(route.pools) + 1
             /\ route.tokenPath[1] = wrapped(route.input)
             /\ route.tokenPath[Len(route.tokenPath)] = wrapped(route.output)
             /\ \A i \in 1..Len(route.pools) :
                  /\ pair(route.pools[i]) = {route.tokenPath[i], route.tokenPath[i + 1]}
                  /\ route.tokenPath[i] # route.tokenPath[i + 1]

\* the route of the tests through three pools is constructed, from the
\* native currency, which enters the path as its wrapped token
RouteTokenPathIsChainWitness ==
  /\ route # Null
  /\ route # Pending
  /\ ~Failed(route)
  /\ Len(route.pools) = 3
  /\ route.input.isNative
  /\ route.tokenPath = <<Token(1, 0), Token(1, 1), Token(1, 2), Token(1, 3)>>

\* C16 as stated: no Route is constructed when some pool's tier choices are
\* zero or select a tier beyond the pool's tier count (choices >= 2^n for a
\* pool of n tiers), or when the number of tier choices differs from the
\* number of pools.
TierChoicesBeyondCountRefused ==
  (/\ route # Null
   /\ route # Pending
   /\ \/ Len(newArgs.tierChoicesList) # Len(newArgs.pools)
      \/ \E i \in DOMAIN newArgs.tierChoicesList \cap DOMAIN newArgs.pools :
           \/ newArgs.tierChoicesList[i] = 0
           \/ newArgs.tierChoicesList[i] >= 2^Len(newArgs.pools[i].tiers)) =>
    Failed(route)

\* C16 as it holds: no Route is constructed when some pool's tier choices
\* select none of the pool's n tiers (choices mod 2^n = 0, zero included),
\* are negative or exceed ALL_TIERS, or when the number of tier choices
\* differs from the number of pools; tier choices up to ALL_TIERS that
\* select a tier of the pool and tiers beyond its count are accepted.
TierChoicesWithoutTierRefused ==
  (route # Null /\ route # Pending) =>
    LET refused(choices, pool) ==
          choices <= 0 \/ choices > ALL_TIERS \/ choices % (2^Len(pool.tiers)) = 0
    IN  /\ (\/ Len(newArgs.tierChoicesList) # Len(newArgs.pools)
            \/ \E i \in DOMAIN newArgs.tierChoicesList \cap DOMAIN newArgs.pools :
                 refused(newArgs.tierChoicesList[i], newArgs.pools[i]))
             => Failed(route)
        /\ (Failed(route) /\ route.err = "TIER_CHOICES")
             => \E i \in DOMAIN newArgs.tierChoicesList :
                  refused(newArgs.tierChoicesList[i], newArgs.pools[i])

\* tier choices 0b100 on a pool of two tiers are refused
TierChoicesWithoutTierRefusedWitness ==
  /\ route # Null
  /\ route # Pending
  /\ Len(newArgs.pools) = 2
  /\ Len(newArgs.pools[2].tiers) = 2
  /\ newArgs.tierChoicesList = <<1, 4>>
  /\ Failed(route)
  /\ route.err = "TIER_CHOICES"

\* C17: tier choices m for a pool of n tiers are accepted exactly when
\* m <= ALL_TIERS, which is 63, and m mod 2^n > 0, and the Route stores m mod 2^n, a mask
\* in [1, 2^n - 1]; refused tier choices fail with 'TIER_CHOICES', and a
\* number of tier choices different from the number of pools fails with
\* 'TIER_CHOICES_COUNT'. Checked on the routes whose pools, input and output
\* pass the constructor's earlier checks and whose tokens chain.
TierChoicesCleaned ==
  (/\ route # Null
   /\ route # Pending
   /\ Len(newArgs.pools) = 2
   /\ newArgs.pools = <<Pool(Token(1, 0), Token(1, 1), 1, newArgs.pools[1].tiers),
                        Pool(Token(1, 1), Token(1, 2), 1, newArgs.pools[2].tiers)>>
   /\ newArgs.input = Token(1, 0)
   /\ newArgs.output = Token(1, 2)) =>
    LET accepted(m, n) == m >= 0 /\ m <= 63 /\ m % (2^n) > 0
        choices == newArgs.tierChoicesList
        tiers(i) == Len(newArgs.pools[i].tiers)
    IN  IF Len(choices) # Len(newArgs.pools)
        THEN Failed(route) /\ route.err = "TIER_CHOICES_COUNT"
        ELSE IF \A i \in DOMAIN choices : accepted(choices[i], tiers(i))
        THEN /\ ~Failed(route)
             /\ \A i \in DOMAIN choices :
                  /\ route.tierChoicesList[i] = choices[i] % (2^tiers(i))
                  /\ route.tierChoicesList[i] >= 1
                  /\ route.tierChoicesList[i] <= 2^tiers(i) - 1
        ELSE Failed(route) /\ route.err = "TIER_CHOICES"

\* the tier choices of the tests on pools of two tiers: 0b110 is stored as
\* 0b10
TierChoicesCleanedWitness ==
  /\ route # Null
  /\ route # Pending
  /\ ~Failed(route)
  /\ Len(route.pools) = 2
  /\ Len(route.pools[2].tiers) = 2
  /\ newArgs.tierChoicesList = <<1, 6>>
  /\ route.tierChoicesList = <<1, 2>>

(***************************************************************************)
(* Properties of Trade.                                                    *)
(***************************************************************************)
\* C18: no Trade is constructed when a pool occurs more than once among the
\* pools of its swaps' routes, so every constructed Trade has pairwise
\* distinct pools; the error is 'POOLS_DUPLICATED' whenever the constructor
\* gets as far as that check (it checks the input currencies and the output
\* currencies first), and it is raised for no other reason.
DuplicatedPoolsRefused ==
  (trade # Null /\ trade # Pending /\ Len(newArgs.routes) > 0) =>
    LET swaps == newArgs.routes
        places == UNION {{<<i, k>> : k \in DOMAIN swaps[i].route.pools} : i \in DOMAIN swaps}
        duplicated == \E a \in places, b \in places :
                        a # b /\ swaps[a[1]].route.pools[a[2]] = swaps[b[1]].route.pools[b[2]]
        unwrap(currency) == IF currency.isNative THEN Token(currency.chainId, 0) ELSE currency
        matched == \A i \in DOMAIN swaps :
                     /\ unwrap(swaps[i].route.input) = unwrap(swaps[1].inputAmount.currency)
                     /\ unwrap(swaps[i].route.output) = unwrap(swaps[1].outputAmount.currency)
    IN  /\ duplicated => Failed(trade)
        /\ (duplicated /\ matched) => trade.err = "POOLS_DUPLICATED"
        /\ (Failed(trade) /\ trade.err = "POOLS_DUPLICATED") => duplicated

\* the test 'repeated pool': two swaps through pool02
DuplicatedPoolsRefusedWitness ==
  /\ trade # Null
  /\ trade # Pending
  /\ Len(newArgs.routes) = 2
  /\ newArgs.routes[1].route = newArgs.routes[2].route
  /\ Len(newArgs.routes[1].route.pools) = 1
  /\ Failed(trade)
  /\ trade.err = "POOLS_DUPLICATED"

\* C19: no Trade is constructed when some swap's route input differs, as
\* wrapped token, from the currency of the first swap's input amount (error
\* 'INPUT_CURRENCY_MATCH') or some swap's route output differs from the
\* currency of the first swap's output amount (error
\* 'OUTPUT_CURRENCY_MATCH' when the inputs match, the inputs being checked
\* first); in every constructed Trade the routes share one wrapped input
\* token and one wrapped output token.
TradeCurrenciesMatch ==
  (trade # Null /\ trade # Pending /\ Len(newArgs.routes) > 0) =>
    LET swaps == newArgs.routes
        unwrap(currency) == IF currency.isNative THEN Token(currency.chainId, 0) ELSE currency
        inputDiffers == \E i \in DOMAIN swaps :
                          unwrap(swaps[i].route.input) # unwrap(swaps[1].inputAmount.currency)
        outputDiffers == \E i \in DOMAIN swaps :
                           unwrap(swaps[i].route.output) # unwrap(swaps[1].outputAmount.currency)
    IN  /\ inputDiffers <=> (Failed(trade) /\ trade.err = "INPUT_CURRENCY_MATCH")
        /\ outputDiffers => Failed(trade)
        /\ (~inputDiffers /\ outputDiffers) <=> (Failed(trade) /\ trade.err = "OUTPUT_CURRENCY_MATCH")
        /\ ~Failed(trade) =>
             \A i \in DOMAIN trade.swaps, j \in DOMAIN trade.swaps :
               /\ unwrap(trade.swaps[i].route.input) = unwrap(trade.swaps[j].route.input)
               /\ unwrap(trade.swaps[i].route.output) = unwrap(trade.swaps[j].route.output)

\* a Trade of a swap from the native currency and a swap from its wrapped
\* token is constructed; the tests 'unmatched inputs' and 'unmatched outputs'
\* are refused
TradeCurrenciesMatchWitness ==
  /\ trade # Null
  /\ trade # Pending
  /\ Len(newArgs.routes) = 2
  /\ newArgs.routes[1].route.input.isNative
  /\ ~newArgs.routes[2].route.input.isNative
  /\ ~Failed(trade)

\* C20: for a tolerance t = n/d >= 0, an ExactInput trade has
\* maximumAmountIn(t) = inputAmount and minimumAmountOut(t) =
\* floor(outputAmount / (1 + t)), an ExactOutput trade has
\* minimumAmountOut(t) = outputAmount and maximumAmountIn(t) =
\* floor(inputAmount * (1 + t)); so minimumAmountOut <= outputAmount and
\* maximumAmountIn >= inputAmount, with equality at t = 0; a negative
\* tolerance fails with 'SLIPPAGE_TOLERANCE' in both methods. A trade whose
\* inputAmount or outputAmount throws has no amount to adjust: the method
\* throws the same error.
SlippageAdjustedAmounts ==
  ("op" \in DOMAIN ret /\ ret.op \in {"minimumAmountOut", "maximumAmountIn"}) =>
    LET n == ret.slippageTolerance.numerator
        d == ret.slippageTolerance.denominator
        isIn == ret.op = "maximumAmountIn"
        amount == IF isIn THEN inputAmount(trade) ELSE outputAmount(trade)
        fixed == trade.tradeType = (IF isIn THEN TradeType.EXACT_INPUT ELSE TradeType.EXACT_OUTPUT)
    IN  IF Failed(amount) THEN ret.value = amount
        ELSE IF n.neg THEN ret.value = Failure("SLIPPAGE_TOLERANCE")
        ELSE /\ ~Failed(ret.value)
             /\ ret.value.currency = amount.currency
             /\ ret.value.quotient =
                  IF fixed THEN amount.quotient
                  ELSE IF isIn THEN divide(multiply(amount.quotient, add(d, n)), d)
                  ELSE divide(multiply(amount.quotient, d), add(d, n))
             /\ IF isIn THEN greaterThanOrEqual(ret.value.quotient, amount.quotient)
                ELSE lessThanOrEqual(ret.value.quotient, amount.quotient)
             /\ n = ZERO => ret.value.quotient = amount.quotient

\* an ExactInput trade of two swaps, 1003 in for 1002 out: under a
\* tolerance of 1/3 at least floor(1002 * 3 / 4) = 751 must come out
SlippageAdjustedAmountsWitness ==
  /\ "op" \in DOMAIN ret
  /\ ret.op = "minimumAmountOut"
  /\ trade.tradeType = TradeType.EXACT_INPUT
  /\ Len(trade.swaps) = 2
  /\ ret.slippageTolerance = Fraction(BigInt(1), BigInt(3))
  /\ trade._outputAmount # Null
  /\ trade._outputAmount.quotient = BigInt(1002)
  /\ ~Failed(ret.value)
  /\ ret.value.quotient = BigInt(751)

(***************************************************************************)
(* Properties of Tier.                                                     *)
(***************************************************************************)
\* C21: a tier's active tick (Tier.tickCurrent) equals
\* sqrtPriceX72ToTick(sqrtPriceX72), except that it is that value minus one
\* when the value equals the tier's nextTickAbove; hence tickCurrent is
\* never equal to nextTickAbove.
TickCurrentBelowNextTickAbove ==
  (ret # Pending /\ ret.op = "tickCurrent" /\ ~Failed(ret.value)) =>
    LET value == sqrtPriceX72ToTick(tier.sqrtPriceX72).num
    IN  /\ value = tier.nextTickAbove => ret.value.num = value - 1
        /\ value # tier.nextTickAbove => ret.value.num = value
        /\ ret.value.num # tier.nextTickAbove

\* the tier at price 1, whose price's tick 0 is its next tick above, is at
\* tick -1
TickCurrentBelowNextTickAboveWitness ==
  /\ ret # Pending
  /\ ret.op = "tickCurrent"
  /\ tier.sqrtPriceX72 = Q72
  /\ tier.nextTickAbove = 0
  /\ ret.value = Number(-1)

(***************************************************************************)
(* Properties of utils/swap.  Two fractions are compared by the products   *)
(* across them.                                                            *)
(***************************************************************************)
\* C22: getInputAmountDistribution(hop) returns one share per entry of
\* tierAmountsIn: when the sum of the amounts is zero every share is 1/n
\* (n the number of entries), otherwise share i is amount_i / sum; for a
\* non-empty hop with non-negative amounts every share is in [0, 1] and the
\* shares sum to exactly 1.
InputAmountDistributionShares ==
  (ret # Pending /\ ret.op = "getInputAmountDistribution") =>
    LET amounts == ret.hop.tierAmountsIn
        n == Len(amounts)
        upTo[i \in 0..n] == IF i = 0 THEN 0 ELSE upTo[i - 1] + amounts[i]
        shares == ret.value
        total[i \in 0..n] == IF i = 0 THEN Fraction(ZERO, ONE) ELSE fractionAdd(total[i - 1], shares[i])
    IN  /\ DOMAIN shares = 1..n
        /\ \A i \in 1..n :
             /\ shares[i].denominator # ZERO
             /\ upTo[n] = 0 => multiply(shares[i].numerator, BigInt(n)) = shares[i].denominator
             /\ upTo[n] # 0 => multiply(shares[i].numerator, BigInt(upTo[n]))
                                 = multiply(shares[i].denominator, BigInt(amounts[i]))
        /\ (n > 0 /\ \A i \in 1..n : amounts[i] >= 0) =>
             /\ \A i \in 1..n :
                  /\ greaterThan(shares[i].denominator, ZERO)
                  /\ greaterThanOrEqual(shares[i].numerator, ZERO)
                  /\ lessThanOrEqual(shares[i].numerator, shares[i].denominator)
             /\ total[n].numerator = total[n].denominator

\* a hop of two tiers that took nothing in is split in halves
InputAmountDistributionSharesWitness ==
  /\ ret # Pending
  /\ ret.op = "getInputAmountDistribution"
  /\ ret.hop.tierAmountsIn = <<0, 0>>
  /\ ret.value = <<Fraction(ONE, TWO), Fraction(ONE, TWO)>>

\* C23: getTradeMarginalPrice(trade, hopsList) is the sum over the swaps of
\* (swap input / total input) times the product over the route's pools of
\* the average, weighted by the hop's input shares, of the tiers' spot
\* prices in the direction of the swap; for an ExactOutput trade each
\* route's hops are reversed first, so the result is that of the ExactInput
\* trade on the reversed hops.
MarginalPriceWeightedSum ==
  (ret # Pending /\ ret.op = "getTradeMarginalPrice" /\ ~Failed(ret.value)) =>
    LET given == newArgs.hopsList
        hops  == IF trade.tradeType = TradeType.EXACT_OUTPUT
                 THEN [i \in DOMAIN given |-> [j \in DOMAIN given[i] |-> given[i][Len(given[i]) + 1 - j]]]
                 ELSE given
        radd(a, b) == CHOOSE r \in {IF x[2] = y[2] THEN <<add(x[1], y[1]), x[2]>>
                                    ELSE <<add(multiply(x[1], y[2]), multiply(y[1], x[2])), multiply(x[2], y[2])>> :
                                      x \in {a}, y \in {b}} : TRUE
        rmul(a, b) == CHOOSE r \in {<<multiply(x[1], y[1]), multiply(x[2], y[2])>> : x \in {a}, y \in {b}} : TRUE
        sumOf(amounts) == LET s[k \in 0..Len(amounts)] == IF k = 0 THEN 0 ELSE s[k - 1] + amounts[k]
                          IN  s[Len(amounts)]
        share(amounts, k) == IF sumOf(amounts) = 0 THEN <<ONE, BigInt(Len(amounts))>>
                             ELSE <<BigInt(amounts[k]), BigInt(sumOf(amounts))>>
        spot(t, zeroIn) == IF zeroIn THEN <<multiply(t.sqrtPriceX72, t.sqrtPriceX72), Q144>>
                           ELSE <<Q144, multiply(t.sqrtPriceX72, t.sqrtPriceX72)>>
        poolAverage(pool, amounts, zeroIn) ==
          LET s[k \in 0..Len(amounts)] ==
                IF k = 0 THEN <<ZERO, ONE>>
                ELSE radd(s[k - 1], rmul(spot(pool.tiers[k], zeroIn), share(amounts, k)))
          IN  s[Len(amounts)]
        routePrice(rt, hs) ==
          LET pr[j \in 0..Len(rt.pools)] ==
                IF j = 0 THEN <<ONE, ONE>>
                ELSE rmul(pr[j - 1], poolAverage(rt.pools[j], hs[j].tierAmountsIn,
                                                 rt.tokenPath[j] = rt.pools[j].token0))
          IN  pr[Len(rt.pools)]
        total[i \in 0..Len(trade.swaps)] ==
          IF i = 0 THEN ZERO ELSE add(total[i - 1], trade.swaps[i].inputAmount.quotient)
        expected[i \in 0..Len(trade.swaps)] ==
          IF i = 0 THEN <<ZERO, ONE>>
          ELSE radd(expected[i - 1],
                    rmul(<<trade.swaps[i].inputAmount.quotient, total[Len(trade.swaps)]>>,
                         routePrice(trade.swaps[i].route, hops[i])))
    IN  /\ ret.value.denominator # ZERO
        /\ \A e \in {expected[Len(trade.swaps)]} :
             multiply(ret.value.numerator, e[2]) = multiply(ret.value.denominator, e[1])
        /\ ret.value = getTradeMarginalPrice([trade EXCEPT !.tradeType = TradeType.EXACT_INPUT], hops)

\* an ExactOutput trade through pool01 and pool12 whose hops are given from
\* the output end: all of pool01's input in its tier at price 1, three
\* quarters of pool12's in its tier at price 1/4, which makes 7/16
MarginalPriceWeightedSumWitness ==
  /\ ret # Pending
  /\ ret.op = "getTradeMarginalPrice"
  /\ trade.tradeType = TradeType.EXACT_OUTPUT
  /\ Len(trade.swaps) = 1
  /\ newArgs.hopsList = <<<<[tierAmountsIn |-> <<75000, 25000>>], [tierAmountsIn |-> <<0, 1>>]>>>>
  /\ ~Failed(ret.value)
  /\ multiply(ret.value.numerator, BigInt(16)) = multiply(ret.value.denominator, BigInt(7))

\* C24: for a trade whose total input is positive and hops that both
\* functions accept, getTradeMaringalOutputAmount(trade, hopsList) divided
\* by trade.inputAmount is exactly getTradeMarginalPrice(trade, hopsList).
MarginalOutputOverInputIsMarginalPrice ==
  (ret # Pending /\ ret.op = "getTradeMaringalOutputAmount" /\ ~Failed(ret.value)) =>
    \A price \in {getTradeMarginalPrice(trade, newArgs.hopsList)}, total \in {inputAmount(trade)} :
      (~Failed(price) /\ ~Failed(total) /\ greaterThan(total.quotient, ZERO)) =>
        /\ ret.value.denominator # ZERO
        /\ price.denominator # ZERO
        /\ multiply(ret.value.numerator, price.denominator)
             = multiply(multiply(ret.value.denominator, total.quotient), price.numerator)

\* 100000 through pool01 and pool12 at 3.25 and 50000 through pool02 at 4
\* make 525000 at the margin, 3.5 a unit of input
MarginalOutputOverInputIsMarginalPriceWitness ==
  /\ ret # Pending
  /\ ret.op = "getTradeMaringalOutputAmount"
  /\ Len(trade.swaps) = 2
  /\ ~Failed(ret.value)
  /\ ret.value.numerator = multiply(ret.value.denominator, BigInt(525000))
  /\ inputAmount(trade).quotient = BigInt(150000)
  /\ \A price \in {getTradeMarginalPrice(trade, newArgs.hopsList)} :
       /\ ~Failed(price)
       /\ multiply(price.numerator, TWO) = multiply(price.denominator, BigInt(7))

\* C25: getPriceImpact(trade, hopsList) is (M - O) / M, where M is the
\* marginal output amount and O the trade's output amount, and it is not
\* negative, for every constructed trade and every hop list the function
\* accepts.
PriceImpactNonNegative ==
  (ret # Pending /\ ret.op = "getPriceImpact" /\ ~Failed(ret.value)) =>
    \A M \in {getTradeMaringalOutputAmount(trade, newArgs.hopsList)}, O \in {outputAmount(trade).quotient} :
      /\ ret.value.denominator # ZERO
      /\ multiply(ret.value.numerator, M.numerator)
           = multiply(ret.value.denominator, subtract(M.numerator, multiply(O, M.denominator)))
      /\ \/ ret.value.numerator = ZERO
         \/ greaterThan(ret.value.numerator, ZERO) /\ greaterThan(ret.value.denominator, ZERO)
         \/ lessThan(ret.value.numerator, ZERO) /\ lessThan(ret.value.denominator, ZERO)

\* C26: getRealizedFee(trade, hopsList).percent is 1 minus the sum over the
\* swaps of (swap input / total input) times the product over the route's
\* pools of the average, weighted by the hop's input shares, of
\* sqrtGamma^2 / 10^10 over the pool's tiers, and .amount is the floor of
\* trade.inputAmount times percent.
RealizedFeeOfWeightedGamma ==
  (ret # Pending /\ ret.op = "getRealizedFee" /\ ~Failed(ret.value)) =>
    LET given == newArgs.hopsList
        hops  == IF trade.tradeType = TradeType.EXACT_OUTPUT
                 THEN [i \in DOMAIN given |-> [j \in DOMAIN given[i] |-> given[i][Len(given[i]) + 1 - j]]]
                 ELSE given
        radd(a, b) == CHOOSE r \in {IF x[2] = y[2] THEN <<add(x[1], y[1]), x[2]>>
                                    ELSE <<add(multiply(x[1], y[2]), multiply(y[1], x[2])), multiply(x[2], y[2])>> :
                                      x \in {a}, y \in {b}} : TRUE
        rmul(a, b) == CHOOSE r \in {<<multiply(x[1], y[1]), multiply(x[2], y[2])>> : x \in {a}, y \in {b}} : TRUE
        sumOf(amounts) == LET s[k \in 0..Len(amounts)] == IF k = 0 THEN 0 ELSE s[k - 1] + amounts[k]
                          IN  s[Len(amounts)]
        share(amounts, k) == IF sumOf(amounts) = 0 THEN <<ONE, BigInt(Len(amounts))>>
                             ELSE <<BigInt(amounts[k]), BigInt(sumOf(amounts))>>
        poolKept(pool, amounts) ==
          LET s[k \in 0..Len(amounts)] ==
                IF k = 0 THEN <<ZERO, ONE>>
                ELSE radd(s[k - 1], rmul(<<multiply(BigInt(pool.tiers[k].sqrtGamma), BigInt(pool.tiers[k].sqrtGamma)),
                                           multiply(BigInt(100000), BigInt(100000))>>,
                                         share(amounts, k)))
          IN  s[Len(amounts)]
        routeKept(rt, hs) ==
          LET pr[j \in 0..Len(rt.pools)] ==
                IF j = 0 THEN <<ONE, ONE>>
                ELSE rmul(pr[j - 1], poolKept(rt.pools[j], hs[j].tierAmountsIn))
          IN  pr[Len(rt.pools)]
        total[i \in 0..Len(trade.swaps)] ==
          IF i = 0 THEN ZERO ELSE add(total[i - 1], trade.swaps[i].inputAmount.quotient)
        keptOverall[i \in 0..Len(trade.swaps)] ==
          IF i = 0 THEN <<ZERO, ONE>>
          ELSE radd(keptOverall[i - 1],
                    rmul(<<trade.swaps[i].inputAmount.quotient, total[Len(trade.swaps)]>>,
                         routeKept(trade.swaps[i].route, hops[i])))
    IN  \A k \in {keptOverall[Len(trade.swaps)]}, input \in {total[Len(trade.swaps)]} :
          \A fee \in {<<subtract(k[2], k[1]), k[2]>>} :
            /\ greaterThan(fee[2], ZERO)
            /\ ret.value.percent.denominator # ZERO
            /\ multiply(ret.value.percent.numerator, fee[2]) = multiply(ret.value.percent.denominator, fee[1])
            /\ lessThanOrEqual(multiply(ret.value.amount.quotient, fee[2]), multiply(input, fee[1]))
            /\ lessThan(multiply(input, fee[1]), multiply(add(ret.value.amount.quotient, ONE), fee[2]))

\* 100000 in, the first hop split evenly between the tiers of sqrtGamma
\* 100000 and 99850, the second wholly in the tier of sqrtGamma 100000:
\* the fee is 0.1498875 percent, 149 units
RealizedFeeOfWeightedGammaWitness ==
  /\ ret # Pending
  /\ ret.op = "getRealizedFee"
  /\ trade.tradeType = TradeType.EXACT_INPUT
  /\ Len(trade.swaps) = 1
  /\ trade.swaps[1].inputAmount.quotient = BigInt(100000)
  /\ newArgs.hopsList = <<<<[tierAmountsIn |-> <<0, 0>>], [tierAmountsIn |-> <<1, 0>>]>>>>
  /\ ~Failed(ret.value)
  /\ ret.value.amount.quotient = BigInt(149)
  /\ multiply(ret.value.percent.numerator, BigInt(1000000000))
       = multiply(ret.value.percent.denominator, BigInt(1498875))

(***************************************************************************)
(* Properties of the derived values of constructed objects.                *)
(***************************************************************************)
\* C27: on every constructed object each derived value that takes no
\* argument is computed without an error; here the getters token0Price,
\* token1Price and tickCurrent of every constructed Tier.
DerivedValuesComplete ==
  (tier # Null /\ tier # Pending /\ ~Failed(tier) /\ ret # Pending) => ~Failed(ret.value)

\* C28: whatever getters of a Position, a Tier or a Trade have been read
\* before, and however often, a getter returns what it computes on the
\* object with no cache set, and every cache that is set holds that value.
MemoizedGettersTransparent ==
  /\ (position # Null /\ position # Pending /\ ~Failed(position)) =>
       \A fresh \in {[position EXCEPT !._token0Amount = Null, !._token1Amount = Null, !._mintAmounts = Null,
                                       !._settleAmounts = Null, !._priceToSettle = Null]} :
         /\ (position._token0Amount # Null \/ position._token1Amount # Null) =>
              \A amounts \in {computeTokenAmounts(fresh)} :
                /\ position._token0Amount = amounts._token0Amount
                /\ position._token1Amount = amounts._token1Amount
                /\ (ret # Pending /\ ret.op = "amount0") => ret.value = amounts._token0Amount
                /\ (ret # Pending /\ ret.op = "amount1") => ret.value = amounts._token1Amount
         /\ position._mintAmounts # Null =>
              \A amounts \in {mintAmounts(fresh)._mintAmounts} :
                /\ position._mintAmounts = amounts
                /\ (ret # Pending /\ ret.op = "mintAmounts") => ret.value = amounts
         /\ position._settleAmounts # Null =>
              \A amounts \in {settleAmounts(fresh)._settleAmounts} :
                /\ position._settleAmounts = amounts
                /\ (ret # Pending /\ ret.op = "settleAmounts") => ret.value = amounts
         /\ position._priceToSettle # Null => position._priceToSettle = priceToSettle(fresh)._priceToSettle
         /\ (ret # Pending /\ ret.op = "priceToSettle") =>
              \A after \in {priceToSettle(fresh)} :
                ret.value = IF Failed(after) THEN after ELSE after._priceToSettle
         /\ (ret # Pending /\ ret.op \in {"amount0", "amount1"}) => position._token0Amount # Null
         /\ (ret # Pending /\ ret.op = "mintAmounts") => position._mintAmounts # Null
         /\ (ret # Pending /\ ret.op = "settleAmounts") => position._settleAmounts # Null
  /\ (tier # Null /\ tier # Pending /\ ~Failed(tier)) =>
       /\ tier._token0Price # Null => tier._token0Price = token0Price(tier)
       /\ tier._token1Price # Null => tier._token1Price = token1Price(tier)
       /\ tier._tickCurrent # Null => tier._tickCurrent = tickCurrent(tier)
       /\ ret # Pending =>
            /\ ret.op = "token0Price" => ret.value = token0Price(tier)
            /\ ret.op = "token1Price" => ret.value = token1Price(tier)
            /\ ret.op = "tickCurrent" => ret.value = tickCurrent(tier)
  /\ (trade # Null /\ trade # Pending /\ ~Failed(trade)) =>
       LET fresh == [trade EXCEPT !._inputAmount = Null, !._outputAmount = Null, !._executionPrice = Null]
       IN  /\ trade._inputAmount # Null => trade._inputAmount = inputAmount(fresh)
           /\ trade._outputAmount # Null => trade._outputAmount = outputAmount(fresh)
           /\ trade._executionPrice # Null => trade._executionPrice = executionPrice(fresh)
           /\ ret # Pending =>
                /\ ret.op = "inputAmount" => ret.value = inputAmount(fresh)
                /\ ret.op = "outputAmount" => ret.value = outputAmount(fresh)
                /\ ret.op = "executionPrice" => ret.value = executionPrice(fresh)

\* mintAmounts read again on a limit order whose other getters have all
\* been read
MemoizedGettersTransparentWitness ==
  /\ position # Null /\ position # Pending /\ ~Failed(position)
  /\ position.limitOrderType = ZeroForOne
  /\ position._token0Amount # Null
  /\ position._settleAmounts # Null
  /\ position._priceToSettle # Null
  /\ ret # Pending
  /\ ret.op = "mintAmounts"
  /\ ret.cached
  /\ ret.value = mintAmountsAtPrice(position, Q72)

(***************************************************************************)
(* More properties of TickMath and of Position.                            *)
(***************************************************************************)
\* C29: for a price p in [MIN_SQRT_PRICE, MAX_SQRT_PRICE],
\* sqrtPriceX72ToTick(p) returns the greatest tick t of [MIN_TICK, MAX_TICK]
\* with tickToSqrtPriceX72(t) <= p, stated as the tick whose price is at
\* most p while the next tick's price, if there is a next tick, is above p;
\* for a price outside the range it fails with SQRT_RATIO.
TickOfPriceIsGreatestTick ==
  tickOut # Pending =>
    IF greaterThanOrEqual(sqrtPriceIn, MIN_SQRT_PRICE) /\ lessThanOrEqual(sqrtPriceIn, MAX_SQRT_PRICE)
    THEN /\ ~Failed(tickOut)
         /\ tickOut.num >= MIN_TICK
         /\ tickOut.num <= MAX_TICK
         /\ lessThanOrEqual(tickToSqrtPriceX72(tickOut.num), sqrtPriceIn)
         /\ tickOut.num < MAX_TICK => greaterThan(tickToSqrtPriceX72(tickOut.num + 1), sqrtPriceIn)
    ELSE tickOut = Failure("SQRT_RATIO")

\* one unit below the price of tick 0 the tick is -1
TickOfPriceIsGreatestTickWitness ==
  /\ tick = 0
  /\ sqrtPriceIn = subtract(Q72, ONE)
  /\ tickOut = Number(-1)

\* C30: the position that fromAmounts returns needs no more than the
\* amounts it was given: its mintAmounts.amount0 is at most amount0 and its
\* mintAmounts.amount1 at most amount1; likewise for fromAmount0 and
\* fromAmount1 and the one amount each is given.
FromAmountsWithinAmounts ==
  (ret # Pending /\ ret.op \in {"fromAmounts", "fromAmount0", "fromAmount1"} /\ ~Failed(ret.value)) =>
    \A needed \in {mintAmounts(ret.value)._mintAmounts} :
      /\ ret.op \in {"fromAmounts", "fromAmount0"} => lessThanOrEqual(needed.amount0, position._token0Amount)
      /\ ret.op \in {"fromAmounts", "fromAmount1"} => lessThanOrEqual(needed.amount1, position._token1Amount)

\* a position made from the two amounts that a position of liquidityD8
\* 10^18 about the current price holds
FromAmountsWithinAmountsWitness ==
  /\ ret # Pending
  /\ ret.op = "fromAmounts"
  /\ ~Failed(ret.value)
  /\ position.liquidityD8 = E18
  /\ position.tickLower = -1
  /\ position.tickUpper = 2
  /\ greaterThan(position._token0Amount, ZERO)
  /\ greaterThan(position._token1Amount, ZERO)
  /\ greaterThan(ret.value.liquidityD8, ZERO)
  /\ greaterThan(mintAmounts(ret.value)._mintAmounts.amount0, ZERO)

====
